---- MODULE Spec2Model ----
(***************************************************************************)
(* Verification model of the AI web-app workspace: the chat panel          *)
(* (ChatPanel.tsx), the AI context (ai-context), the Gemini provider       *)
(* (gemini.ts), the code panel (CodePanel.tsx), the preview panel and the  *)
(* flow panel.                                                             *)
(*                                                                         *)
(* Conventions of the encoding                                             *)
(*  - A string is a sequence of lexical units (TLC strings). Len is its    *)
(*    length, SubSeq(s, 1, n) is s.substring(0, n), <<>> is "".            *)
(*  - A path "a/b/c" is the sequence <<"a","b","c">> of its segments, so   *)
(*    path.split("/") and parts.join("/") are the two readings of the same *)
(*    value; the null / empty path is <<>> (both are falsy in the code).   *)
(*  - A tree is a sequence of nodes, in the order of the children array.   *)
(*  - Every action is one handler run to completion followed by the React  *)
(*    re-render and the effects it triggers (Render).                      *)
(***************************************************************************)
EXTENDS Integers, Sequences, FiniteSets, TLC

\* ------------------------------------------------------------------------
\* Bounds of the model
\* ------------------------------------------------------------------------
MaxReq == 2
MaxEdits == 2
MaxCodeReq == 1
MaxParses == 2
MaxTabs == 2

\* ------------------------------------------------------------------------
\* Program constants
\* ------------------------------------------------------------------------
typingSpeed == 10

NoPath == <<>>

\* ------------------------------------------------------------------------
\* Strings: lexical units and the substring tests the code makes
\* ------------------------------------------------------------------------
WS == " "
StyleBlock == "<style>css</style>"
ScriptBlock == "<script>js</script>"

\* s.includes(needle), needle one of the literals the code searches for.
UnitContains(unit, needle) ==
    \/ unit = needle
    \/ needle = "<" /\ unit \in {"<html", StyleBlock, ScriptBlock}

Includes(s, needle) == \E i \in 1..Len(s) : UnitContains(s[i], needle)

Repeat(unit, n) == [i \in 1..n |-> unit]

Min(a, b) == IF a <= b THEN a ELSE b

\* JSON member keys and string values occurring in generated file maps.
KeyPath(unit) ==
    CASE unit = "\"d/a.js\":" -> <<"d", "a.js">>
      [] unit = "\"d/b.js\":" -> <<"d", "b.js">>
      [] unit = "\"d\":" -> <<"d">>
      [] unit = "\"index.html\":" -> <<"index.html">>
      [] unit = "\"src/App.jsx\":" -> <<"src", "App.jsx">>
      [] OTHER -> NoPath

ValContent(unit) ==
    CASE unit = "\"x\"" -> <<"x">>
      [] unit = "\"y\"" -> <<"y">>
      [] unit = "\"\"" -> <<>>
      [] OTHER -> <<"?">>

IsKey(unit) == KeyPath(unit) # NoPath
IsVal(unit) == unit \in {"\"x\"", "\"y\"", "\"\""}

\* The generated code payloads (response.code) the model draws from.
\* (The provider trims the code, so whitespace is interior.)
JsonMap == <<"{">> \o Repeat(WS, 3) \o <<"\"d/a.js\":", "\"x\"">> \o
           Repeat(WS, 3) \o <<"\"d/b.js\":", "\"y\"", "}">>
JsonApp == <<"{">> \o Repeat(WS, 3) \o <<"\"index.html\":", "\"x\"">> \o
           Repeat(WS, 3) \o <<"\"src/App.jsx\":", "\"y\"", "}">>
\* A file map in which the path of one file is a prefix of another path.
JsonPrefix == <<"{", "\"d\":", "\"x\"">> \o Repeat(WS, 3) \o
              <<"\"d/a.js\":", "\"y\"", "}">>
ReactCode == <<"import React", "function", "return", "<">> \o Repeat("x", 8)
HtmlCode == <<"<html", StyleBlock, ScriptBlock>> \o Repeat("x", 8)
PlainCode == Repeat("x", 11)
NullCode == <<"null">>

Payloads == {JsonMap, JsonApp, ReactCode, HtmlCode, PlainCode, NullCode}

\* ------------------------------------------------------------------------
\* Structure detection (CodePanel.tsx)
\* ------------------------------------------------------------------------
Entry(path, content) == [path |-> path, content |-> content]

StripWS(s) == SelectSeq(s, LAMBDA u : u # WS)

\* JSON.parse(code) followed by the typeof check: "object" for an object
\* literal of string members, "null" for the literal null (typeof null is
\* "object" too), "throw" when JSON.parse throws or the value is no object.
JsonKind(code) ==
    LET s == StripWS(code) IN
    IF s = <<"null">> THEN "null"
    ELSE IF /\ Len(s) >= 2
            /\ s[1] = "{"
            /\ s[Len(s)] = "}"
            /\ Len(s) % 2 = 0
            /\ \A i \in 2..(Len(s) - 1) :
                  IF i % 2 = 0 THEN IsKey(s[i]) ELSE IsVal(s[i])
         THEN "object"
         ELSE "throw"

\* Object.entries of the parsed object, in insertion order.
JsonEntries(code) ==
    LET s == StripWS(code) IN
    [k \in 1..((Len(s) - 2) \div 2) |->
        Entry(KeyPath(s[2 * k]), ValContent(s[2 * k + 1]))]

IndexTsxTemplate == <<"index.tsx template">>
IndexCssTemplate == <<"index.css template">>
PackageJsonTemplate == <<"package.json template">>
IndexHtmlTemplate == <<"index.html template">>
ViteConfigTemplate == <<"vite.config.ts template">>
TsconfigTemplate == <<"tsconfig.json template">>
TsconfigNodeTemplate == <<"tsconfig.node.json template">>

extractFilesFromCode(code) ==
    IF \/ Includes(code, "import React")
       \/ /\ Includes(code, "function")
          /\ Includes(code, "return")
          /\ Includes(code, "<")
    THEN << Entry(<<"src", "App.tsx">>, code),
            Entry(<<"src", "index.tsx">>, IndexTsxTemplate),
            Entry(<<"src", "index.css">>, IndexCssTemplate),
            Entry(<<"package.json">>, PackageJsonTemplate),
            Entry(<<"index.html">>, IndexHtmlTemplate),
            Entry(<<"vite.config.ts">>, ViteConfigTemplate),
            Entry(<<"tsconfig.json">>, TsconfigTemplate),
            Entry(<<"tsconfig.node.json">>, TsconfigNodeTemplate) >>
    ELSE IF Includes(code, "<!DOCTYPE html>") \/ Includes(code, "<html")
    THEN << Entry(<<"index.html">>, code) >>
         \o (IF Includes(code, StyleBlock)
             THEN << Entry(<<"src", "styles.css">>, <<"css">>) >> ELSE << >>)
         \o (IF Includes(code, ScriptBlock)
             THEN << Entry(<<"src", "index.js">>, <<"js">>) >> ELSE << >>)
    ELSE IF Includes(code, "function")
    THEN << Entry(<<"src", "main.js">>, code) >>
    ELSE << Entry(<<"src", "main.txt">>, code) >>

\* projectFiles of parseCodeIntoFiles / startTypingEffect: the parsed JSON
\* object, or extractFilesFromCode when JSON.parse or the typeof check throws.
\* The literal null passes the typeof check and reaches
\* createDirectoryStructure, where Object.entries(null) throws.
ProjectFiles(code) ==
    CASE JsonKind(code) = "object" -> [throws |-> FALSE, files |-> JsonEntries(code)]
      [] JsonKind(code) = "null" -> [throws |-> TRUE, files |-> << >>]
      [] OTHER -> [throws |-> FALSE, files |-> extractFilesFromCode(code)]

\* ------------------------------------------------------------------------
\* The file tree
\* ------------------------------------------------------------------------
Ext(name) ==
    CASE name \in {"index.html"} -> "html"
      [] name \in {"index.css", "styles.css"} -> "css"
      [] name \in {"a.js", "b.js", "n.js", "index.js", "main.js"} -> "js"
      [] name \in {"App.jsx"} -> "jsx"
      [] name \in {"vite.config.ts"} -> "ts"
      [] name \in {"App.tsx", "index.tsx"} -> "tsx"
      [] name \in {"package.json", "tsconfig.json", "tsconfig.node.json"} -> "json"
      [] OTHER -> name

getLanguage(filename) ==
    LET ext == Ext(filename) IN
    CASE ext = "html" -> "html"
      [] ext = "css" -> "css"
      [] ext \in {"js", "jsx"} -> "javascript"
      [] ext \in {"ts", "tsx"} -> "typescript"
      [] ext = "json" -> "json"
      [] ext = "md" -> "markdown"
      [] OTHER -> "plaintext"

FileNode(name, content) ==
    [name |-> name, type |-> "file", content |-> content,
     language |-> getLanguage(name)]

FolderNode(name, children) ==
    [name |-> name, type |-> "folder", children |-> children]

\* items.findIndex(test) + 1: the first position satisfying test, 0 if none.
FindIndex(items, Test(_)) ==
    LET S == {i \in 1..Len(items) : Test(items[i])} IN
    IF S = {} THEN 0 ELSE CHOOSE i \in S : \A j \in S : i <= j

IsFolderNamed(item, name) == item.name = name /\ item.type = "folder"
IsFileNamed(item, name) == item.name = name /\ item.type = "file"

RECURSIVE InsertEntry(_, _, _)
\* An insertion that never looks for the folder: it makes a new one each time.
InsertEntryNewFolder(items, parts, content) ==
    IF Len(parts) = 1
    THEN Append(items, FileNode(parts[1], content))
    ELSE Append(items,
                FolderNode(parts[1], InsertEntry(<< >>, Tail(parts), content)))

InsertEntry(items, parts, content) ==
    IF Len(parts) = 1
    THEN Append(items, FileNode(parts[1], content))
    ELSE LET i == FindIndex(items, LAMBDA it : IsFolderNamed(it, parts[1])) IN
         IF i = 0
         THEN Append(items,
                     FolderNode(parts[1], InsertEntry(<< >>, Tail(parts), content)))
         ELSE [items EXCEPT ![i].children = InsertEntry(@, Tail(parts), content)]

RECURSIVE BuildStructure(_, _)
BuildStructure(structure, files) ==
    IF files = << >> THEN structure
    ELSE BuildStructure(
             InsertEntry(structure, Head(files).path, Head(files).content),
             Tail(files))

createDirectoryStructure(files) == BuildStructure(<< >>, files)

NotFound == [found |-> FALSE, content |-> << >>]
Found(content) == [found |-> TRUE, content |-> content]

\* The JavaScript truthiness of getFileContent's result: null and "" are falsy.
Truthy(r) == r.found /\ r.content # << >>

RECURSIVE getFileContent(_, _)
getFileContent(tree, path) ==
    IF path = NoPath \/ path = <<"">> THEN NotFound      \* !path
    ELSE IF Len(path) = 1
    THEN LET i == FindIndex(tree, LAMBDA it : IsFileNamed(it, path[1])) IN
         IF i = 0 THEN NotFound ELSE Found(tree[i].content)
    ELSE LET i == FindIndex(tree, LAMBDA it : IsFolderNamed(it, path[1])) IN
         IF i = 0 THEN NotFound ELSE getFileContent(tree[i].children, Tail(path))

RECURSIVE findFirstFile(_, _)
findFirstFile(structure, prefix) ==
    IF structure = << >> THEN NoPath
    ELSE LET item == Head(structure)
             path == Append(prefix, item.name)
         IN IF item.type = "file" THEN path
            ELSE LET found == findFirstFile(item.children, path) IN
                 IF found # NoPath THEN found
                 ELSE findFirstFile(Tail(structure), prefix)

mainFileCandidates ==
    << <<"src", "index.tsx">>, <<"src", "index.ts">>, <<"src", "index.jsx">>,
       <<"src", "index.js">>, <<"src", "App.tsx">>, <<"src", "App.jsx">>,
       <<"index.html">> >>

\* findMainFile(structure): the candidates are looked up with getFileContent,
\* which reads the fileSystem state of the enclosing render (tree), not the
\* structure passed in.
findMainFile(tree, structure) ==
    LET hits == {i \in 1..Len(mainFileCandidates) :
                    Truthy(getFileContent(tree, mainFileCandidates[i]))} IN
    IF hits # {}
    THEN mainFileCandidates[CHOOSE i \in hits : \A j \in hits : i <= j]
    ELSE findFirstFile(structure, << >>)

\* ------------------------------------------------------------------------
\* Tree mutation helpers (the recursive closures of saveFile, createNewFile
\* and deleteItem); each works on the deep copy of the tree it is given.
\* ------------------------------------------------------------------------
IsNamed(item, name) == item.name = name

RECURSIVE updateFileContent(_, _, _)
updateFileContent(items, path, content) ==
    LET fail == [ok |-> FALSE, items |-> items] IN
    IF path = << >> THEN fail
    ELSE LET i == FindIndex(items, LAMBDA it : IsNamed(it, path[1])) IN
         IF i = 0 THEN fail
         ELSE IF Len(path) = 1
         THEN IF items[i].type = "file"
              THEN [ok |-> TRUE, items |-> [items EXCEPT ![i].content = content]]
              ELSE fail
         ELSE IF items[i].type = "folder"
         THEN LET r == updateFileContent(items[i].children, Tail(path), content) IN
              [ok |-> r.ok, items |-> [items EXCEPT ![i].children = r.items]]
         ELSE fail

RECURSIVE addFile(_, _)
addFile(items, path) ==
    IF Len(path) = 1
    THEN Append(items, FileNode(path[1], << >>))
    ELSE LET i == FindIndex(items, LAMBDA it : IsFolderNamed(it, path[1])) IN
         IF i = 0
         THEN Append(items, FolderNode(path[1], addFile(<< >>, Tail(path))))
         ELSE [items EXCEPT ![i].children = addFile(@, Tail(path))]

RemoveAt(items, i) ==
    [k \in 1..(Len(items) - 1) |-> IF k < i THEN items[k] ELSE items[k + 1]]

RECURSIVE removeItem(_, _)
removeItem(items, path) ==
    LET fail == [ok |-> FALSE, items |-> items] IN
    IF path = << >> THEN fail
    ELSE IF Len(path) = 1
    THEN LET i == FindIndex(items, LAMBDA it : IsNamed(it, path[1])) IN
         IF i = 0 THEN fail ELSE [ok |-> TRUE, items |-> RemoveAt(items, i)]
    ELSE LET i == FindIndex(items, LAMBDA it : IsFolderNamed(it, path[1])) IN
         IF i = 0 THEN fail
         ELSE LET r == removeItem(items[i].children, Tail(path)) IN
              [ok |-> r.ok, items |-> [items EXCEPT ![i].children = r.items]]

RECURSIVE getFolderItems(_, _)
getFolderItems(items, path) ==
    IF path = << >> THEN items
    ELSE LET i == FindIndex(items, LAMBDA it : IsNamed(it, path[1])) IN
         IF i = 0 \/ items[i].type # "folder" THEN << >>
         ELSE getFolderItems(items[i].children, Tail(path))

\* The items renderFileTree draws, each with the itemPath its handlers use:
\* a folder's children are drawn only while currentPath equals its itemPath.
RECURSIVE renderFileTree(_, _, _)
renderFileTree(items, path, cur) ==
    IF items = << >> THEN {}
    ELSE LET item == Head(items)
             itemPath == Append(path, item.name)
         IN {[path |-> itemPath, type |-> item.type]}
            \cup (IF item.type = "folder" /\ cur = itemPath
                  THEN renderFileTree(item.children, itemPath, cur) ELSE {})
            \cup renderFileTree(Tail(items), path, cur)

\* file.startsWith(fullPath + "/") on "/"-joined paths.
StartsWithPrefix(file, fullPath) ==
    /\ Len(file) > Len(fullPath)
    /\ SubSeq(file, 1, Len(fullPath)) = fullPath

Filter(s, Test(_)) == SelectSeq(s, Test)
InSeq(s, x) == \E i \in 1..Len(s) : s[i] = x

\* ------------------------------------------------------------------------
\* State
\* ------------------------------------------------------------------------
VARIABLES
    \* AI context (ai-context)
    isConfigured,        \* !!client
    isGenerating,
    \* ChatPanel
    chatPanel,           \* which of the file's two ChatPanel definitions is built
    now,                 \* Date.now(), counted from Epoch
    messages,
    loadingMessageRef,   \* id of the loading message, 0 for null
    loadingIntervalRef,  \* owner of the running status interval, 0 for null
    requests,            \* the handleSendMessage activations, by submission order
    loadingStageIndexRef,
    \* PreviewPanel
    generatedCode,
    \* FlowPanel: React state, the diagram container and what is in flight
    mermaidCode, isLoading, renderedSvg,
    activeTab,           \* the tab of the panel's Tabs: "diagram" or "code"
    mermaidRef,          \* the container div: whether it is in the DOM, its innerHTML
    renderJobs,          \* the renderMermaid activations waiting at an await
    loadingTimeouts,     \* pending setTimeout(() => setIsLoading(false), 500)
    renderCount,         \* renders started so far (the id of the next one)
    \* the workspace
    mounted,             \* the panels are mounted
    \* CodePanel: React state
    fileSystem, selectedFile, openFiles, unsavedChanges, currentFileContent,
    currentPath, isTyping, typingPaused,
    \* CodePanel: refs
    typingIntervalRef,   \* "null", "active", or "cleared" (a stale timer id)
    codeBufferRef, typingPositionRef,
    \* CodePanel: what the long-lived callbacks closed over
    closure,             \* render state seen by the app-preview-update handler
    editorMount,         \* render state seen by the editor's Ctrl+S command
    \* observations
    toast,               \* title of the toast raised by the last handler
    bufferParses,        \* runs of parseCodeIntoFiles(codeBufferRef.current) on
                         \* the buffer held now, counted up to MaxParses
    resolved,            \* requests in the order their generateApp resolved
    dispatched,          \* the panel events dispatched, with their request
    call,                \* one generateWebApp call followed await by await
    edits,               \* how many editing operations the user has made
    manualEdit,          \* the file created by hand during the typing simulation
    rendererInputs,      \* the definitions handed to mermaid.render so far
    lastSource,          \* the definition of the last renderMermaid call
    \* outside the panels' React state
    sessions,            \* ProjectGenerator.sessions, in insertion order
    sessionResult,       \* what the last createSession returned or threw
    listeners,           \* handlers registered on document, per panel and event
    fileMap,             \* the flat file map materialized last, and its tree
    flatPanel,           \* state of the CodePanel definition that keeps a flat
                         \* map of files (parsedFiles) and no tree
    extraction           \* the last completion and what generateContent made of it

aiVars == <<isConfigured, isGenerating>>
chatVars == <<chatPanel, now, messages, loadingMessageRef, loadingIntervalRef,
              loadingStageIndexRef, requests, resolved, dispatched>>
viewVars == <<generatedCode>>
flowVars == <<mermaidCode, isLoading, renderedSvg, activeTab, mermaidRef,
              renderJobs, loadingTimeouts, renderCount, rendererInputs, lastSource>>
codeVars == <<fileSystem, selectedFile, openFiles, unsavedChanges,
              currentFileContent, currentPath, isTyping, typingPaused,
              typingIntervalRef, codeBufferRef, typingPositionRef, closure,
              editorMount, toast, bufferParses>>
offPanelVars == <<sessions, sessionResult, fileMap, flatPanel, extraction>>
outsideVars == <<offPanelVars, listeners>>
vars == <<aiVars, chatVars, viewVars, flowVars, codeVars, mounted, edits,
          manualEdit, call, outsideVars>>

\* ------------------------------------------------------------------------
\* CodePanel: one handler's pending state, and the render that commits it
\* ------------------------------------------------------------------------
\* The state a handler of the current render starts from.
\* The handlers of terminal-output the model tells apart.
MaxHandlers == 2

\* listenForServerUrl() (lines 1027-1047), reached by the setupProject() call
\* that announced the setup: one more handler of terminal-output is on the
\* document. The handlers on the document are counted per panel and event.
listenForServerUrl(p) ==
    IF p.toast = "Project setup started"
    THEN [listeners EXCEPT
            !["CodePanel/terminal-output"] = Min(@ + 1, MaxHandlers)]
    ELSE listeners

Cur ==
    [fileSystem |-> fileSystem, selectedFile |-> selectedFile,
     openFiles |-> openFiles, unsavedChanges |-> unsavedChanges,
     currentFileContent |-> currentFileContent, currentPath |-> currentPath,
     isTyping |-> isTyping, typingPaused |-> typingPaused,
     typingIntervalRef |-> typingIntervalRef, codeBufferRef |-> codeBufferRef,
     typingPositionRef |-> typingPositionRef, toast |-> "none",
     bufferParses |-> bufferParses]

Snapshot(p) ==
    [fileSystem |-> p.fileSystem, selectedFile |-> p.selectedFile,
     typingPaused |-> p.typingPaused]

NoEditor == [mounted |-> FALSE, fileSystem |-> << >>]
Mounted(tree) == [mounted |-> TRUE, fileSystem |-> tree]

\* The re-render after a handler left the pending state p and the AI context
\* has isGenerating = g, with the effects it runs:
\*  - the isTyping effect (lines 116-120) sets isTyping when g holds;
\*  - a handler that reached listenForServerUrl() has added its handler of
\*    terminal-output to the document;
\*  - the app-preview-update effect (lines 93-113, deps [isTyping]) registers
\*    a handler closed over the new render whenever isTyping changed;
\*  - MonacoEditor exists while selectedFile is set, and its onMount command
\*    keeps the saveFile of the render that mounted it (lines 561-580).
Render(p, g) ==
    LET typing == p.isTyping \/ g
        rerun == (p.isTyping # isTyping) \/ (typing # p.isTyping)
        q == [p EXCEPT !.isTyping = typing]
    IN /\ fileSystem' = q.fileSystem
       /\ selectedFile' = q.selectedFile
       /\ openFiles' = q.openFiles
       /\ unsavedChanges' = q.unsavedChanges
       /\ currentFileContent' = q.currentFileContent
       /\ currentPath' = q.currentPath
       /\ isTyping' = q.isTyping
       /\ typingPaused' = q.typingPaused
       /\ typingIntervalRef' = q.typingIntervalRef
       /\ codeBufferRef' = q.codeBufferRef
       /\ typingPositionRef' = q.typingPositionRef
       /\ toast' = q.toast
       /\ bufferParses' = q.bufferParses
       /\ listeners' = listenForServerUrl(q)
       /\ closure' = IF rerun THEN Snapshot(q) ELSE closure
       /\ editorMount' = IF q.selectedFile = NoPath THEN NoEditor
                         ELSE IF selectedFile = NoPath THEN Mounted(q.fileSystem)
                         ELSE editorMount

\* setupProject() as called at the end of parseCodeIntoFiles: it returns at
\* once when the render's fileSystem is empty, else announces the setup.
setupProjectToast(tree) ==
    IF tree = << >> THEN "none" ELSE "Project setup started"

\* parseCodeIntoFiles(code) of a render whose fileSystem state is tree,
\* applied to the pending state p.
parseCodeIntoFiles(p, tree, code) ==
    LET projectFiles == ProjectFiles(code) IN
    IF projectFiles.throws
    THEN [p EXCEPT !.toast = "Error parsing code"]
    ELSE LET newFileSystem == createDirectoryStructure(projectFiles.files)
             mainFile == findMainFile(tree, newFileSystem)
             fileContent == getFileContent(tree, mainFile)
         IN [p EXCEPT
               !.fileSystem = newFileSystem,
               !.selectedFile = IF mainFile # NoPath THEN mainFile ELSE @,
               !.openFiles = IF mainFile # NoPath THEN <<mainFile>> ELSE @,
               !.currentFileContent =
                   IF mainFile # NoPath /\ Truthy(fileContent)
                   THEN fileContent.content ELSE @,
               !.unsavedChanges = {},
               !.toast = setupProjectToast(tree)]

\* startTypingEffect(fullCode) of the handler's render (closure).
startTypingEffect(p, fullCode) ==
    LET p1 == [p EXCEPT
                 !.typingPositionRef = 0,
                 !.codeBufferRef = fullCode,
                 !.bufferParses = 0,
                 !.typingIntervalRef = IF @ = "null" THEN "null" ELSE "cleared"]
        projectFiles == ProjectFiles(fullCode)
    IN IF projectFiles.throws
       THEN p1   \* the TypeError leaves the handler before any state is set
       ELSE LET initialStructure == createDirectoryStructure(projectFiles.files)
                mainFile == findMainFile(closure.fileSystem, initialStructure)
            IN [p1 EXCEPT
                  !.fileSystem = initialStructure,
                  !.selectedFile = IF mainFile # NoPath THEN mainFile ELSE @,
                  !.openFiles = IF mainFile # NoPath THEN <<mainFile>> ELSE @,
                  !.currentFileContent = IF mainFile # NoPath THEN << >> ELSE @,
                  !.typingIntervalRef = "active"]

\* handleAppPreviewUpdate(event), the handler registered by the last run of
\* the effect; the isTyping it reads is the one of that render.
handleAppPreviewUpdate(p, generated) ==
    IF isTyping
    THEN startTypingEffect(p, generated)
    ELSE parseCodeIntoFiles(p, closure.fileSystem, generated)

\* partialFiles[selectedFile]: the entry of a flat file map, "" when absent.
Lookup(files, path) ==
    LET i == FindIndex(files, LAMBDA e : e.path = path) IN
    IF i = 0 THEN << >> ELSE files[i].content

\* One run of the interval callback created by startTypingEffect.
typingTick(p) ==
    LET currentPosition == p.typingPositionRef
        charsToAdd == Min(typingSpeed, Len(p.codeBufferRef) - currentPosition)
        done(q) == parseCodeIntoFiles(
                       [q EXCEPT !.typingIntervalRef = "cleared",
                                 !.isTyping = FALSE,
                                 !.bufferParses = Min(@ + 1, MaxParses)],
                       closure.fileSystem, p.codeBufferRef)
    IN IF closure.typingPaused THEN p
       ELSE IF charsToAdd <= 0 THEN done(p)
       ELSE LET newText == SubSeq(p.codeBufferRef, 1, currentPosition + charsToAdd)
                p1 == [p EXCEPT !.typingPositionRef = @ + charsToAdd]
                partialFiles == extractFilesFromCode(newText)
                p2 == IF JsonKind(newText) = "object"
                      THEN [p1 EXCEPT !.fileSystem =
                               createDirectoryStructure(JsonEntries(newText))]
                      ELSE [p1 EXCEPT
                              !.fileSystem = createDirectoryStructure(partialFiles),
                              !.currentFileContent =
                                  IF /\ closure.selectedFile # NoPath
                                     /\ Lookup(partialFiles, closure.selectedFile) # << >>
                                  THEN Lookup(partialFiles, closure.selectedFile)
                                  ELSE @]
            IN IF currentPosition + charsToAdd >= Len(p.codeBufferRef)
               THEN done(p2) ELSE p2

\* A skipTyping that stops the interval and leaves the revealed prefix as it is.
skipTypingKeepsPrefix(p) ==
    IF p.typingIntervalRef # "null"
    THEN [p EXCEPT !.typingIntervalRef = "cleared",
                   !.bufferParses = Min(@ + 1, MaxParses),
                   !.isTyping = FALSE, !.typingPaused = FALSE]
    ELSE p

\* skipTyping() of the current render.
skipTyping(p) ==
    IF p.typingIntervalRef # "null"
    THEN [parseCodeIntoFiles(
              [p EXCEPT !.typingIntervalRef = "cleared",
                        !.bufferParses = Min(@ + 1, MaxParses)],
              fileSystem, p.codeBufferRef)
          EXCEPT !.isTyping = FALSE, !.typingPaused = FALSE]
    ELSE p

\* saveFile(filePath, content) of a render whose fileSystem state is tree.
saveFile(p, tree, filePath, content) ==
    IF filePath = NoPath THEN p
    ELSE LET r == updateFileContent(tree, filePath, content) IN
         IF r.ok
         THEN [p EXCEPT !.fileSystem = r.items,
                        !.unsavedChanges = @ \ {filePath}]
         ELSE p

\* The Ctrl+S command installed by handleEditorDidMount: it reads the
\* selected file through selectedFileRef and the text through the editor,
\* and calls the saveFile of the render that mounted the editor.
saveCommand(p) ==
    IF selectedFile = NoPath THEN p
    ELSE [saveFile(p, editorMount.fileSystem, selectedFile, currentFileContent)
          EXCEPT !.toast = "File saved"]

handleEditorChange(p, value) ==
    IF selectedFile = NoPath THEN p
    ELSE [p EXCEPT !.currentFileContent = value,
                   !.unsavedChanges = @ \cup {selectedFile}]

openFile(p, path) ==
    LET content == getFileContent(fileSystem, path) IN
    IF path # NoPath /\ content.found
    THEN [p EXCEPT !.selectedFile = path,
                   !.currentFileContent = content.content,
                   !.openFiles = IF InSeq(openFiles, path) THEN @
                                 ELSE Append(@, path)]
    ELSE p

\* The onClick of a tab (lines 1335-1341).
selectTab(p, file) ==
    LET content == getFileContent(fileSystem, file) IN
    [p EXCEPT !.selectedFile = file,
              !.currentFileContent = IF content.found THEN content.content ELSE @]

\* closeFileTab(filename, e): openFiles, selectedFile and fileSystem are the
\* values of the render the handler belongs to; only unsavedChanges is
\* updated from the pending value.
closeFileTab(p, filename) ==
    LET newOpenFiles == Filter(openFiles, LAMBDA file : file # filename)
        content == IF newOpenFiles = << >> THEN NotFound
                   ELSE getFileContent(fileSystem, newOpenFiles[1])
    IN IF selectedFile = filename /\ newOpenFiles # << >>
       THEN [p EXCEPT !.unsavedChanges = @ \ {filename},
                      !.openFiles = newOpenFiles,
                      !.selectedFile = newOpenFiles[1],
                      !.currentFileContent =
                          IF content.found THEN content.content ELSE @]
       ELSE IF newOpenFiles = << >>
       THEN [p EXCEPT !.unsavedChanges = @ \ {filename},
                      !.openFiles = newOpenFiles,
                      !.selectedFile = NoPath,
                      !.currentFileContent = << >>]
       ELSE [p EXCEPT !.unsavedChanges = @ \ {filename},
                      !.openFiles = newOpenFiles]

createNewFile(p, newItemName) ==
    LET fullPath == currentPath \o newItemName IN
    IF newItemName = << >> THEN p
    ELSE IF getFileContent(fileSystem, fullPath).found
    THEN [p EXCEPT !.toast = "Error"]
    ELSE [p EXCEPT !.fileSystem = addFile(fileSystem, fullPath),
                   !.selectedFile = fullPath,
                   !.currentFileContent = << >>,
                   !.openFiles = Append(@, fullPath)]

\* addFolder of createNewFolder, on the deep copy of the tree.
RECURSIVE addFolder(_, _)
addFolder(items, path) ==
    LET fail == [ok |-> FALSE, items |-> items] IN
    IF path = << >> THEN fail
    ELSE IF Len(path) = 1
    THEN IF \E i \in 1..Len(items) : IsNamed(items[i], path[1])
         THEN fail
         ELSE [ok |-> TRUE, items |-> Append(items, FolderNode(path[1], << >>))]
    ELSE LET i == FindIndex(items, LAMBDA it : IsFolderNamed(it, path[1])) IN
         IF i = 0
         THEN LET r == addFolder(<< >>, Tail(path)) IN
              [ok |-> r.ok, items |-> Append(items, FolderNode(path[1], r.items))]
         ELSE LET r == addFolder(items[i].children, Tail(path)) IN
              [ok |-> r.ok, items |-> [items EXCEPT ![i].children = r.items]]

createNewFolder(p, newItemName) ==
    LET r == addFolder(fileSystem, currentPath \o newItemName) IN
    IF newItemName = << >> THEN p
    ELSE IF r.ok THEN [p EXCEPT !.fileSystem = r.items]
    ELSE [p EXCEPT !.toast = "Error"]

RECURSIVE closeEach(_, _)
closeEach(p, files) ==
    IF files = << >> THEN p
    ELSE closeEach(closeFileTab(p, Head(files)), Tail(files))

deleteItem(p, path) ==
    LET r == removeItem(fileSystem, path) IN
    IF path = NoPath \/ ~r.ok THEN p
    ELSE LET p1 == [p EXCEPT !.fileSystem = r.items]
             p2 == IF InSeq(openFiles, path) THEN closeFileTab(p1, path) ELSE p1
             filesToClose ==
                 Filter(openFiles, LAMBDA file : StartsWithPrefix(file, path))
         IN closeEach(p2, filesToClose)

\* ------------------------------------------------------------------------
\* CodePanel: the user's and the timer's actions
\* ------------------------------------------------------------------------
NewItemNames == { <<"n.js">>, <<"d">>, <<"e", "n.js">> }
EditorValues == { <<"edit">> }

Rendered == renderFileTree(getFolderItems(fileSystem, currentPath), << >>, currentPath)

\* renderBreadcrumbs: the root crumb navigates to [], and every other crumb
\* spreads the one array the loop kept pushing to, which is currentPath.
renderBreadcrumbs == {<< >>, currentPath}

CodeStep(p) ==
    /\ Render(p, isGenerating)
    /\ UNCHANGED <<aiVars, chatVars, viewVars, flowVars, mounted, edits,
                   manualEdit, call, offPanelVars>>

\* An editing operation of the user (the model follows MaxEdits of them).
EditStep(p) ==
    /\ edits < MaxEdits
    /\ edits' = edits + 1
    /\ Render(p, isGenerating)
    /\ UNCHANGED <<aiVars, chatVars, viewVars, flowVars, mounted, call, offPanelVars>>

\* The typing simulation is replacing the tree tick by tick.
TypingInProgress == isTyping /\ typingIntervalRef = "active"

TypingTick ==
    /\ mounted
    /\ typingIntervalRef = "active"
    /\ CodeStep(typingTick(Cur))

SkipTyping ==
    /\ mounted
    /\ isTyping
    /\ CodeStep(skipTyping(Cur))

ToggleTypingPause ==
    /\ mounted
    /\ isTyping
    /\ CodeStep([Cur EXCEPT !.typingPaused = ~typingPaused])

EditorChange ==
    /\ selectedFile # NoPath
    /\ ~isTyping
    /\ \E value \in EditorValues : EditStep(handleEditorChange(Cur, value))
    /\ UNCHANGED manualEdit

SaveShortcut ==
    /\ editorMount.mounted
    /\ EditStep(saveCommand(Cur))
    /\ UNCHANGED manualEdit

\* (The user opens a file from the tree while fewer than MaxTabs are open.)
OpenFile ==
    \E item \in Rendered :
        /\ item.type = "file"
        /\ Len(openFiles) < MaxTabs
        /\ CodeStep(openFile(Cur, item.path))

SelectTab ==
    \E i \in 1..Len(openFiles) : CodeStep(selectTab(Cur, openFiles[i]))

CloseFileTab ==
    \E i \in 1..Len(openFiles) : CodeStep(closeFileTab(Cur, openFiles[i]))

\* (manualEdit records the file the user created while the typing simulation
\* was in progress, until the user deletes it or a new payload arrives.)
CreateNewFile ==
    \E name \in NewItemNames :
        /\ EditStep(createNewFile(Cur, name))
        /\ manualEdit' =
              IF /\ TypingInProgress
                 /\ ~getFileContent(fileSystem, currentPath \o name).found
              THEN currentPath \o name ELSE manualEdit

CreateNewFolder ==
    /\ \E name \in NewItemNames : EditStep(createNewFolder(Cur, name))
    /\ UNCHANGED manualEdit

DeleteItem ==
    \E item \in Rendered :
        /\ EditStep(deleteItem(Cur, item.path))
        /\ manualEdit' =
              IF /\ removeItem(fileSystem, item.path).ok
                 /\ manualEdit = item.path \/ StartsWithPrefix(manualEdit, item.path)
              THEN NoPath ELSE manualEdit

NavigateToFolder ==
    \E path \in {item.path : item \in {it \in Rendered : it.type = "folder"}}
                \cup renderBreadcrumbs :
        CodeStep([Cur EXCEPT !.currentPath = path])

\* ------------------------------------------------------------------------
\* Gemini provider (gemini.ts): one model call and the generateWebApp chain
\* ------------------------------------------------------------------------
\* A completion (fullText) is a sequence of parts: prose (label "text") or a
\* closed fenced block with its label and inner content.
Part(label, body) == [label |-> label, body |-> body]

RECURSIVE JoinBodies(_, _)
JoinBodies(parts, sep) ==
    IF parts = << >> THEN << >>
    ELSE IF Len(parts) = 1 THEN parts[1].body
    ELSE parts[1].body \o sep \o JoinBodies(Tail(parts), sep)

\* extractTextOnly: every fenced block removed, the rest trimmed. (When
\* nothing is left the first paragraph is tried, which then begins with a
\* fence and is rejected.)
extractTextOnly(fullText) ==
    JoinBodies(Filter(fullText, LAMBDA part : part.label = "text"), << >>)

\* extractCodeBlocks: the inner content of the blocks that are not mermaid
\* blocks, each followed by a blank line, the whole trimmed.
extractCodeBlocks(fullText) ==
    JoinBodies(Filter(fullText, LAMBDA part : part.label \notin {"text", "mermaid"}),
               <<"\n\n">>)

\* sanitizeMermaidLabel on one line: the characters ( ) " : ' are removed.
sanitizeMermaidLabel(line) ==
    CASE line = "A(User) --> B[App]" -> "AUser --> B[App]"
      [] OTHER -> line

\* extractMermaidCode: the first mermaid block, sanitized line by line.
extractMermaidCode(fullText) ==
    LET blocks == Filter(fullText, LAMBDA part : part.label = "mermaid") IN
    IF blocks = << >> THEN << >>
    ELSE [i \in 1..Len(blocks[1].body) |-> sanitizeMermaidLabel(blocks[1].body[i])]

\* The outcome of one fetch: it rejects ("network"), answers with a non-2xx
\* status ("http"), or answers 200 with a completion (an empty one when the
\* body carries no candidate).
NetworkFailure == [kind |-> "network", fullText |-> << >>]
HttpFailure == [kind |-> "http", fullText |-> << >>]
Completion(fullText) == [kind |-> "ok", fullText |-> fullText]

\* generateContent(prompt): undefined fields are the empty string.
generateContent(outcome) ==
    IF outcome.kind = "ok"
    THEN [text |-> extractTextOnly(outcome.fullText),
          code |-> extractCodeBlocks(outcome.fullText),
          mermaidCode |-> extractMermaidCode(outcome.fullText),
          error |-> ""]
    ELSE [text |-> << >>, code |-> << >>, mermaidCode |-> << >>,
          error |-> IF outcome.kind = "http" THEN "Failed to generate content"
                    ELSE "Failed to fetch"]

\* --- the classification answer -----------------------------------------
Absent == [present |-> FALSE, framework |-> "", styling |-> "", database |-> ""]
Frontend(framework, styling) ==
    [present |-> TRUE, framework |-> framework, styling |-> styling, database |-> ""]
Backend(framework, database) ==
    [present |-> TRUE, framework |-> framework, styling |-> "", database |-> database]

\* The value of JSON.parse("{}"): no member is defined.
EmptyObject ==
    [type |-> "undefined", language |-> "undefined", frontend |-> Absent,
     backend |-> Absent, name |-> "undefined"]

\* The configuration of the catch block (lines 180-190).
DefaultConfig ==
    [type |-> "frontend", language |-> "typescript",
     frontend |-> Frontend("react", "tailwind"), backend |-> Absent,
     name |-> "default-project"]

\* The members a classification answer is made of.
Members ==
    {"\"type\":\"frontend\"", "\"type\":\"backend\"", "\"type\":\"fullstack\"",
     "\"language\":\"javascript\"", "\"frontend\":{nextjs,css}",
     "\"backend\":{express,postgres}", "\"name\":\"shop\""}

SetMember(config, unit) ==
    CASE unit = "\"type\":\"frontend\"" -> [config EXCEPT !.type = "frontend"]
      [] unit = "\"type\":\"backend\"" -> [config EXCEPT !.type = "backend"]
      [] unit = "\"type\":\"fullstack\"" -> [config EXCEPT !.type = "fullstack"]
      [] unit = "\"language\":\"javascript\"" -> [config EXCEPT !.language = "javascript"]
      [] unit = "\"frontend\":{nextjs,css}" ->
             [config EXCEPT !.frontend = Frontend("nextjs", "css")]
      [] unit = "\"backend\":{express,postgres}" ->
             [config EXCEPT !.backend = Backend("express", "postgres")]
      [] unit = "\"name\":\"shop\"" -> [config EXCEPT !.name = "shop"]
      [] OTHER -> config

RECURSIVE SetMembers(_, _)
SetMembers(config, units) ==
    IF units = << >> THEN config
    ELSE SetMembers(SetMember(config, Head(units)), Tail(units))

\* configText.match(/\{[\s\S]*\}/): from the first "{" to the last "}".
JsonMatch(configText) ==
    LET opens == {i \in 1..Len(configText) : configText[i] = "{"}
        first == IF opens = {} THEN 0
                 ELSE CHOOSE i \in opens : \A j \in opens : i <= j
        closes == {i \in 1..Len(configText) : configText[i] = "}" /\ i > first}
        last == IF closes = {} THEN 0
                ELSE CHOOSE i \in closes : \A j \in closes : i >= j
    IN IF first = 0 \/ last = 0 THEN << >> ELSE SubSeq(configText, first, last)

\* JSON.parse(jsonString) returns: the braces enclose members only.
JsonParses(jsonString) ==
    /\ Len(jsonString) >= 2
    /\ jsonString[1] = "{"
    /\ jsonString[Len(jsonString)] = "}"
    /\ \A i \in 2..(Len(jsonString) - 1) : jsonString[i] \in Members \cup {WS}

\* Lines 170-191: the configuration generateWebApp goes on with.
ParseConfig(text) ==
    LET configText == IF text = << >> THEN <<"{", "}">> ELSE text
        jsonMatch == JsonMatch(configText)
        jsonString == IF jsonMatch = << >> THEN <<"{", "}">> ELSE jsonMatch
        inner == StripWS(SubSeq(jsonString, 2, Len(jsonString) - 1))
    IN IF JsonParses(jsonString)
       THEN SetMembers(EmptyObject, inner)
       ELSE DefaultConfig                       \* the catch block

OrElse(value, default) == IF value = "" THEN default ELSE value

\* Lines 258-291: the diagram used when the diagram call gave none.
FallbackDiagram(config) ==
    IF config.type = "fullstack"
    THEN <<"graph TD", "A[User] --> B[Frontend - ",
           OrElse(config.frontend.framework, "React"), "D[Backend - ",
           OrElse(config.backend.framework, "Express"), "E[Database - ",
           OrElse(config.backend.database, "None")>>
    ELSE IF config.type = "frontend"
    THEN <<"graph TD", "A[User] --> B[Frontend App]">>
    ELSE <<"graph TD", "A[Client Request] --> B[API Routes]", "E[Database - ",
           OrElse(config.backend.database, "None")>>

\* A generateWebApp that reports the error of the classification call too.
generateWebAppClassifierError(configOutcome, webAppOutcome, mermaidOutcome) ==
    LET configResponse == generateContent(configOutcome)
        config == ParseConfig(configResponse.text)
        webAppResponse == generateContent(webAppOutcome)
        mermaidResponse == generateContent(mermaidOutcome)
        finalMermaidCode == IF mermaidResponse.mermaidCode = << >>
                            THEN FallbackDiagram(config)
                            ELSE mermaidResponse.mermaidCode
    IN [text |-> webAppResponse.text,
        code |-> webAppResponse.code,
        mermaidCode |-> finalMermaidCode,
        config |-> config,
        error |-> IF configResponse.error # "" THEN configResponse.error
                  ELSE IF webAppResponse.error # "" THEN webAppResponse.error
                  ELSE mermaidResponse.error]

\* generateWebApp(prompt), given the outcomes of its three model calls.
generateWebApp(configOutcome, webAppOutcome, mermaidOutcome) ==
    LET configResponse == generateContent(configOutcome)
        config == ParseConfig(configResponse.text)
        webAppResponse == generateContent(webAppOutcome)
        mermaidResponse == generateContent(mermaidOutcome)
        finalMermaidCode == IF mermaidResponse.mermaidCode = << >>
                            THEN FallbackDiagram(config)
                            ELSE mermaidResponse.mermaidCode
    IN [text |-> webAppResponse.text,
        code |-> webAppResponse.code,
        mermaidCode |-> finalMermaidCode,
        config |-> config,
        error |-> IF webAppResponse.error # "" THEN webAppResponse.error
                  ELSE mermaidResponse.error]


\* ------------------------------------------------------------------------
\* FlowPanel
\* ------------------------------------------------------------------------
\* !code || code.trim() === ""
Blank(code) == StripWS(code) = << >>

\* The declaration a line of a diagram definition opens with, "" if none.
DeclarationOf(line) ==
    CASE line = "graph TD" -> "graph"
      [] line = "flowchart TD" -> "flowchart"
      [] line = "sequenceDiagram" -> "sequenceDiagram"
      [] OTHER -> ""

\* mermaid.render(id, code) fulfils for a definition that opens with a
\* diagram declaration and rejects otherwise.
MermaidAccepts(code) ==
    ~Blank(code) /\ DeclarationOf(StripWS(code)[1]) # ""

\* What the container shows: nothing (null, or a div just created), the
\* placeholder, the svg of a render, or one of the two error blocks.
Markup(kind, id, source) == [kind |-> kind, id |-> id, source |-> source]
NoMarkup == Markup("none", 0, << >>)
Placeholder == Markup("placeholder", 0, << >>)
SvgOf(id, code) == Markup("svg", id, code)
ErrorHtml(code) == Markup("error", 0, code)
FallbackContent(code) == Markup("fallback", 0, code)

\* The svg text ChatPanel sends as the flowDiagram of flow-diagram-update.
SvgText(code) == <<"<svg id=\"flow-diagram\">">> \o code

NoDiv == [present |-> FALSE, innerHTML |-> NoMarkup]
Div(innerHTML) == [present |-> TRUE, innerHTML |-> innerHTML]

\* The container div is rendered in the diagram tab when there is a
\* definition and the panel is not loading (lines 305-360).
DivPresent(code, loading, tab) == tab = "diagram" /\ ~Blank(code) /\ ~loading

Job(stage, id, code) == [stage |-> stage, id |-> id, code |-> code]

NoSource == [received |-> FALSE, code |-> << >>]
Source(code) == [received |-> TRUE, code |-> code]

\* The state a FlowPanel handler starts from.
FlowCur ==
    [mermaidCode |-> mermaidCode, isLoading |-> isLoading,
     renderedSvg |-> renderedSvg, innerHTML |-> mermaidRef.innerHTML,
     renderJobs |-> renderJobs, loadingTimeouts |-> loadingTimeouts,
     renderCount |-> renderCount, rendererInputs |-> rendererInputs,
     lastSource |-> lastSource]

\* The re-render of FlowPanel after a handler left the pending state f: the
\* container is created empty or removed as the JSX decides, and the effect
\* on [renderedSvg] (lines 69-73) writes the markup when it has changed.
FlowRender(f) ==
    LET present == DivPresent(f.mermaidCode, f.isLoading, activeTab)
        kept == IF mermaidRef.present THEN f.innerHTML ELSE NoMarkup
        shown == IF f.renderedSvg # renderedSvg /\ f.renderedSvg # NoMarkup
                 THEN f.renderedSvg ELSE kept
    IN /\ mermaidCode' = f.mermaidCode
       /\ isLoading' = f.isLoading
       /\ renderedSvg' = f.renderedSvg
       /\ activeTab' = activeTab
       /\ mermaidRef' = IF present THEN Div(shown) ELSE NoDiv
       /\ renderJobs' = f.renderJobs
       /\ loadingTimeouts' = f.loadingTimeouts
       /\ renderCount' = f.renderCount
       /\ rendererInputs' = f.rendererInputs
       /\ lastSource' = f.lastSource

\* renderMermaid(code) up to its first await.
renderMermaid(f, code) ==
    LET f1 == [f EXCEPT !.isLoading = TRUE, !.lastSource = Source(code)] IN
    IF Blank(code)
    THEN [f1 EXCEPT !.renderedSvg = NoMarkup,
                    !.isLoading = FALSE,
                    !.innerHTML = IF mermaidRef.present THEN Placeholder ELSE @]
    ELSE [f1 EXCEPT !.renderJobs = Append(@, Job("importing", 0, code))]

\* handleFlowDiagramUpdate(event); a null flowDiagram is << >>.
handleFlowDiagramUpdate(f, flowDiagram) ==
    LET f1 == [f EXCEPT !.isLoading = TRUE] IN
    IF flowDiagram # << >>
    THEN renderMermaid([f1 EXCEPT !.mermaidCode = flowDiagram], flowDiagram)
    ELSE [f1 EXCEPT !.loadingTimeouts = @ + 1]

\* handleMermaidCodeUpdate(event)
handleMermaidCodeUpdate(f, code) ==
    IF code # << >>
    THEN renderMermaid([f EXCEPT !.mermaidCode = code], code)
    ELSE f

\* renderMermaid after the import of mermaid: the render is started.
renderStarted(f, j) ==
    [f EXCEPT !.renderJobs[j].stage = "rendering",
              !.renderJobs[j].id = f.renderCount + 1,
              !.renderCount = @ + 1,
              !.rendererInputs = @ \cup {f.renderJobs[j].code}]

\* renderMermaid from the point where its await settles with markup (the
\* svg, the error block of the inner catch or the fallback of the outer
\* catch) to the end of its finally block.
renderSettled(f, j, markup) ==
    [f EXCEPT !.renderedSvg = markup,
              !.innerHTML = IF mermaidRef.present THEN markup ELSE @,
              !.isLoading = FALSE,
              !.renderJobs = RemoveAt(@, j)]

\* ------------------------------------------------------------------------
\* AI context and ChatPanel
\* ------------------------------------------------------------------------
Epoch == 10

\* What the three model calls of one generateApp may answer.
Prose == <<"Here is your app.">>
ConfigOutcomes ==
    {NetworkFailure,
     Completion(<<Part("text", <<"{", "\"type\":\"backend\"", "}">>)>>)}
WebAppOutcomes ==
    {NetworkFailure, HttpFailure, Completion(<<Part("text", Prose)>>)}
    \cup {Completion(<<Part("text", Prose), Part("tsx", code)>>) : code \in Payloads}
MermaidOutcomes ==
    {NetworkFailure,
     Completion(<<Part("mermaid", <<"graph TD", "A(User) --> B[App]">>)>>)}

loadingStages ==
    <<"Got it, working on it...", "Generating response...", "Finishing up...">>

Message(id, sender, status, content) ==
    [id |-> id, sender |-> sender, status |-> status, content |-> content,
     statusText |-> IF status = "loading" THEN loadingStages[1] ELSE "undefined"]

Greeting == Message(1, "ai", IF chatPanel = 1 THEN "complete" ELSE "undefined",
                    <<"Hello! I'm your AI assistant.">>)
Sorry == <<"Sorry, I couldn't generate a response.">>

NoResponse == [text |-> << >>, code |-> << >>, mermaidCode |-> << >>]

\* One activation of handleSendMessage: where it stands, the constants of
\* its closure, and whether its generation call failed.
Request(stage, loadingId, response, failed) ==
    [stage |-> stage, loadingId |-> loadingId, response |-> response,
     failed |-> failed]

Event(r, type) == [request |-> r, type |-> type]

\* configureClient: a client is created and stored.
ConfigureClient ==
    /\ ~isConfigured
    /\ isConfigured' = TRUE
    /\ UNCHANGED <<isGenerating, chatVars, viewVars, flowVars, codeVars, mounted,
                   edits, manualEdit, call, outsideVars>>

\* handleSendMessage up to its await of generateApp, which sets isGenerating.
\* The first definition disables the submit button while isGenerating.
handleSendMessage(limit) ==
    /\ mounted
    /\ isConfigured
    /\ Len(requests) < limit
    /\ chatPanel = 1 => ~isGenerating
    /\ LET r == Len(requests) + 1
           loadingId == now + 1
           userMessage == Message(now, "user",
                                  IF chatPanel = 1 THEN "complete" ELSE "undefined",
                                  <<"prompt">>)
           loadingMessage == Message(loadingId, "ai", "loading", << >>)
       IN IF chatPanel = 1
          THEN /\ messages' = messages \o <<userMessage, loadingMessage>>
               /\ loadingMessageRef' = loadingId
               /\ loadingStageIndexRef' = 0
               /\ loadingIntervalRef' = r
               /\ requests' = Append(requests,
                                     Request("pending", loadingId, NoResponse, FALSE))
          ELSE /\ messages' = Append(messages, userMessage)
               /\ UNCHANGED <<loadingMessageRef, loadingIntervalRef,
                              loadingStageIndexRef>>
               /\ requests' = Append(requests,
                                     Request("pending", 0, NoResponse, FALSE))
    /\ isGenerating' = TRUE
    /\ Render(Cur, TRUE)
    /\ UNCHANGED <<isConfigured, chatPanel, now, resolved, dispatched, viewVars,
                   flowVars, mounted, edits, manualEdit, call, offPanelVars>>

HandleSendMessage == handleSendMessage(MaxReq)

\* The same handler in a session of MaxCodeReq submissions.
HandleFirstMessage == handleSendMessage(MaxCodeReq)

\* generateApp of request r resolves, its three model calls having answered
\* from the given sets: the finally block clears isGenerating
\* and handleSendMessage continues up to its next await (or to its end); the
\* panels handle the dispatched events synchronously.
generateAppResolves(r, configs, webApps, mermaids) ==
    /\ requests[r].stage = "pending"
    /\ \E c \in configs, w \in webApps, m \in mermaids :
        LET response == generateWebApp(c, w, m)
            content == IF response.text # << >> THEN response.text ELSE Sorry
            hasCode == response.code # << >>
            kept == [text |-> response.text, code |-> response.code,
                     mermaidCode |-> response.mermaidCode]
            p == IF hasCode /\ mounted
                 THEN handleAppPreviewUpdate(Cur, response.code) ELSE Cur
            previewEvent == IF hasCode THEN {Event(r, "app-preview-update")} ELSE {}
        IN /\ IF chatPanel = 1
              THEN /\ loadingIntervalRef' = 0
                   /\ messages' =
                        IF mounted
                        THEN Append(Filter(messages,
                                           LAMBDA msg : msg.id # requests[r].loadingId),
                                    Message(now + 2, "ai", "complete", content))
                        ELSE messages
                   /\ requests' = [requests EXCEPT ![r] =
                                     Request("importing", @.loadingId, kept, w.kind # "ok")]
                   /\ FlowRender(FlowCur)
                   /\ dispatched' = dispatched \cup previewEvent
              ELSE /\ loadingIntervalRef' = loadingIntervalRef
                   /\ messages' =
                        IF mounted
                        THEN Append(messages, Message(now, "ai", "undefined", content))
                        ELSE messages
                   /\ requests' = [requests EXCEPT ![r] =
                                     Request("timer", @.loadingId, kept, w.kind # "ok")]
                   /\ FlowRender(IF mounted
                                 THEN handleMermaidCodeUpdate(FlowCur,
                                                              response.mermaidCode)
                                 ELSE FlowCur)
                   /\ dispatched' = dispatched \cup previewEvent
                                    \cup {Event(r, "mermaid-code-update")}
           /\ generatedCode' = IF hasCode /\ mounted THEN response.code
                               ELSE generatedCode
           /\ manualEdit' = IF hasCode /\ mounted THEN NoPath ELSE manualEdit
           /\ Render(p, FALSE)
    /\ isGenerating' = FALSE
    /\ resolved' = Append(resolved, r)
    /\ UNCHANGED <<isConfigured, chatPanel, now, loadingMessageRef,
                   loadingStageIndexRef, mounted, edits, call, offPanelVars>>

Resolve(r) ==
    generateAppResolves(r, ConfigOutcomes, WebAppOutcomes, MermaidOutcomes)

\* The same step in a session whose classification and diagram calls answer
\* well and whose generation call fails or answers with code.
ValidConfig == Completion(<<Part("text", <<"{", "\"type\":\"fullstack\"", "}">>)>>)
ValidDiagram == Completion(<<Part("mermaid", <<"graph TD", "A(User) --> B[App]">>)>>)
CodeOutcomes ==
    {NetworkFailure}
    \cup {Completion(<<Part("text", Prose), Part("tsx", code)>>) :
             code \in {JsonMap, JsonApp, JsonPrefix, NullCode}}

ResolveCode(r) ==
    generateAppResolves(r, {ValidConfig}, CodeOutcomes, {ValidDiagram})

\* First definition: the dynamic import of mermaid settles. On success the
\* render is started and not awaited; either way handleSendMessage then runs
\* to its end and clears loadingMessageRef.
ImportDone(r) ==
    /\ requests[r].stage = "importing"
    /\ \E ok \in BOOLEAN :
        /\ requests' = [requests EXCEPT ![r].stage = IF ok THEN "rendering" ELSE "done"]
        /\ FlowRender(IF ok
                      THEN [FlowCur EXCEPT !.rendererInputs =
                                @ \cup {requests[r].response.mermaidCode}]
                      ELSE FlowCur)
    /\ loadingMessageRef' = 0
    /\ Render(Cur, isGenerating)
    /\ UNCHANGED <<aiVars, chatPanel, now, messages, loadingIntervalRef,
                   loadingStageIndexRef, resolved, dispatched, viewVars, mounted,
                   edits, manualEdit, call, offPanelVars>>

\* First definition: mermaid.render settles; when it fulfils, the svg and then
\* the code are dispatched, and FlowPanel keeps the code (handlers 18-37).
RenderDone(r) ==
    /\ requests[r].stage = "rendering"
    /\ requests' = [requests EXCEPT ![r].stage = "done"]
    /\ \E ok \in {b \in BOOLEAN : b => MermaidAccepts(requests[r].response.mermaidCode)} :
        IF ok
        THEN /\ dispatched' = dispatched \cup {Event(r, "flow-diagram-update"),
                                               Event(r, "mermaid-code-update")}
             /\ FlowRender(IF mounted
                           THEN handleMermaidCodeUpdate(
                                    handleFlowDiagramUpdate(
                                        FlowCur,
                                        SvgText(requests[r].response.mermaidCode)),
                                    requests[r].response.mermaidCode)
                           ELSE FlowCur)
        ELSE /\ dispatched' = dispatched
             /\ FlowRender(FlowCur)
    /\ Render(Cur, isGenerating)
    /\ UNCHANGED <<aiVars, chatPanel, now, messages, loadingMessageRef,
                   loadingIntervalRef, loadingStageIndexRef, resolved,
                   generatedCode, mounted, edits, manualEdit, call, offPanelVars>>

\* Second definition: the 100 ms timer dispatches flow-diagram-update with a
\* null diagram, which FlowPanel answers by a loading flicker only.
FlowDiagramTimeout(r) ==
    /\ requests[r].stage = "timer"
    /\ requests' = [requests EXCEPT ![r].stage = "done"]
    /\ dispatched' = dispatched \cup {Event(r, "flow-diagram-update")}
    /\ FlowRender(IF mounted THEN handleFlowDiagramUpdate(FlowCur, << >>)
                  ELSE FlowCur)
    /\ Render(Cur, isGenerating)
    /\ UNCHANGED <<aiVars, chatPanel, now, messages, loadingMessageRef,
                   loadingIntervalRef, loadingStageIndexRef, resolved, viewVars,
                   mounted, edits, manualEdit, call, offPanelVars>>


\* ------------------------------------------------------------------------
\* The workspace: ChatPanel, PreviewPanel, CodePanel and FlowPanel mounted
\* ------------------------------------------------------------------------
\* generateWebApp before its first await.
NotCalled ==
    [stage |-> "start", configOutcome |-> NetworkFailure, config |-> EmptyObject,
     webAppOutcome |-> NetworkFailure,
     response |-> [text |-> << >>, code |-> << >>, mermaidCode |-> << >>,
                   config |-> EmptyObject, error |-> ""],
     calls |-> << >>]

\* The handlers the panels' effects register on mount: ChatPanel lines 53-74,
\* PreviewPanel lines 20-43, CodePanel lines 93-113, FlowPanel lines 17-61;
\* listenForServerUrl has not run.
Handlers ==
    {"ChatPanel/chat-update", "PreviewPanel/app-preview-update",
     "CodePanel/app-preview-update", "FlowPanel/flow-diagram-update",
     "FlowPanel/mermaid-code-update", "CodePanel/terminal-output"}
Registered ==
    [h \in Handlers |-> IF h = "CodePanel/terminal-output" THEN 0 ELSE 1]

\* The state the flat CodePanel definition starts with (lines 31-42).
FlatInitial ==
    [selectedFile |-> <<"index.html">>,
     openFiles |-> << <<"index.html">> >>,
     parsedFiles |-> <<Entry(<<"index.html">>, <<"<!-- No code generated yet -->">>)>>,
     unsavedChanges |-> {}]

NoResult == [kind |-> "none", id |-> "", message |-> ""]

NotExtracted ==
    [parts |-> << >>, fullText |-> << >>, text |-> << >>, code |-> << >>]

Mount(definition) ==
    /\ isConfigured = FALSE
    /\ isGenerating = FALSE
    /\ chatPanel = definition
    /\ now = Epoch
    /\ messages = <<Greeting>>
    /\ loadingMessageRef = 0
    /\ loadingIntervalRef = 0
    /\ loadingStageIndexRef = 0
    /\ requests = << >>
    /\ generatedCode = << >>
    /\ mermaidCode = << >>
    /\ isLoading = FALSE
    /\ renderedSvg = NoMarkup
    /\ activeTab = "diagram"
    /\ mermaidRef = NoDiv
    /\ renderJobs = << >>
    /\ loadingTimeouts = 0
    /\ renderCount = 0
    /\ rendererInputs = {}
    /\ lastSource = NoSource
    /\ mounted = TRUE
    /\ manualEdit = NoPath
    /\ fileSystem = << >>
    /\ selectedFile = NoPath
    /\ openFiles = << >>
    /\ unsavedChanges = {}
    /\ currentFileContent = << >>
    /\ currentPath = << >>
    /\ isTyping = FALSE
    /\ typingPaused = FALSE
    /\ typingIntervalRef = "null"
    /\ codeBufferRef = << >>
    /\ typingPositionRef = 0
    /\ closure = [fileSystem |-> << >>, selectedFile |-> NoPath,
                   typingPaused |-> FALSE]
    /\ editorMount = NoEditor
    /\ toast = "none"
    /\ bufferParses = 0
    /\ resolved = << >>
    /\ dispatched = {}
    /\ edits = 0
    /\ call = NotCalled
    /\ sessions = << >>
    /\ sessionResult = NoResult
    /\ listeners = Registered
    /\ fileMap = [files |-> << >>, structure |-> << >>]
    /\ flatPanel = FlatInitial
    /\ extraction = NotExtracted

Init == \E definition \in {1, 2} : Mount(definition)

\* A session of generations: requests, their resolutions, and the typing
\* simulation they drive.
Next ==
    \/ ConfigureClient
    \/ HandleSendMessage
    \/ \E r \in 1..Len(requests) : Resolve(r)
    \/ \E r \in 1..Len(requests) : ImportDone(r)
    \/ \E r \in 1..Len(requests) : RenderDone(r)
    \/ \E r \in 1..Len(requests) : FlowDiagramTimeout(r)
    \/ TypingTick
    \/ SkipTyping
    \/ ToggleTypingPause

Spec == Init /\ [][Next]_vars

\* A session of the first ChatPanel definition in which the user also works
\* in the code panel.
InitCode == Mount(1)

NextCode ==
    \/ ConfigureClient
    \/ HandleFirstMessage
    \/ \E r \in 1..Len(requests) : ResolveCode(r)
    \/ TypingTick
    \/ SkipTyping
    \/ ToggleTypingPause
    \/ EditorChange
    \/ SaveShortcut
    \/ OpenFile
    \/ SelectTab
    \/ CloseFileTab
    \/ CreateNewFile
    \/ CreateNewFolder
    \/ DeleteItem
    \/ NavigateToFolder

SpecCode == InitCode /\ [][NextCode]_vars

\* ------------------------------------------------------------------------
\* GeminiProvider.generateWebApp, await by await
\* ------------------------------------------------------------------------
MaxLen == 3

\* The units a classification answer is written with.
ConfigUnits == {"{", "}", "\"type\":\"fullstack\"", "\"name\":\"shop\"", "sure", WS}

RECURSIVE Texts(_)
Texts(n) ==
    IF n = 0 THEN {<< >>}
    ELSE Texts(n - 1)
         \cup {Append(t, u) : t \in {x \in Texts(n - 1) : Len(x) = n - 1},
                              u \in ConfigUnits}

\* text.trim(): a completion neither begins nor ends with whitespace.
Trimmed(t) == t = << >> \/ (t[1] # WS /\ t[Len(t)] # WS)

\* The classification call answers with prose, with a fenced block, or fails.
ClassifierOutcomes ==
    {NetworkFailure, HttpFailure}
    \cup {Completion(<<Part("text", t)>>) : t \in {x \in Texts(MaxLen) : Trimmed(x)}}
    \cup {Completion(<<Part("json", <<"{", "\"type\":\"fullstack\"", "}">>)>>)}

\* Lines 166-191: the classification call resolves and its answer is parsed.
Classify ==
    /\ call.stage = "start"
    /\ \E outcome \in ClassifierOutcomes :
        call' = [call EXCEPT
                   !.stage = "classified",
                   !.configOutcome = outcome,
                   !.config = ParseConfig(generateContent(outcome).text),
                   !.calls = Append(@, "config")]
    /\ UNCHANGED <<aiVars, chatVars, viewVars, flowVars, codeVars, mounted,
                   edits, manualEdit, outsideVars>>

\* Line 226: the generation call resolves.
Generate ==
    /\ call.stage = "classified"
    /\ \E outcome \in WebAppOutcomes :
        call' = [call EXCEPT !.stage = "generated",
                             !.webAppOutcome = outcome,
                             !.calls = Append(@, "webApp")]
    /\ UNCHANGED <<aiVars, chatVars, viewVars, flowVars, codeVars, mounted,
                   edits, manualEdit, outsideVars>>

\* Lines 254-300: the diagram call resolves and the response is returned.
Diagram ==
    /\ call.stage = "generated"
    /\ \E outcome \in MermaidOutcomes :
        call' = [call EXCEPT
                   !.stage = "returned",
                   !.response = generateWebApp(call.configOutcome,
                                               call.webAppOutcome, outcome),
                   !.calls = Append(@, "mermaid")]
    /\ UNCHANGED <<aiVars, chatVars, viewVars, flowVars, codeVars, mounted,
                   edits, manualEdit, outsideVars>>

NextProvider == Classify \/ Generate \/ Diagram

SpecProvider == Mount(1) /\ [][NextProvider]_vars


\* ------------------------------------------------------------------------
\* Properties of a session of generations (Spec)
\* ------------------------------------------------------------------------
Settled == bufferParses > 0

AnswerOf(response) == IF response.text # << >> THEN response.text ELSE Sorry

\* C1: when the generateApp call of request 1 resolves after that of request
\* 2, the late result is discarded: request 1 dispatches no panel event, and
\* the chat, the preview code and the diagram show the payload of request 2.
C1_LateResultDiscarded ==
    resolved = <<2, 1>> =>
        /\ \A e \in dispatched : e.request # 1
        /\ messages[Len(messages)].content = AnswerOf(requests[2].response)
        /\ requests[2].response.code # << >> =>
               generatedCode = requests[2].response.code
        /\ mermaidCode = requests[2].response.mermaidCode

\* The tree the non-animated path makes of the complete buffer.
DirectTree ==
    IF ProjectFiles(codeBufferRef).throws THEN fileSystem
    ELSE createDirectoryStructure(ProjectFiles(codeBufferRef).files)

\* C3: on the step that settles the typing simulation (the last tick or
\* Skip), the file tree becomes the tree that parseCodeIntoFiles makes of the
\* complete buffer; no tree of a revealed prefix survives.
C3_SettledTreeIsDirectTree ==
    [][(~Settled /\ Settled') => fileSystem' = DirectTree]_vars

\* C3 witness: Skip settled a payload of which only a prefix was revealed, and
\* the tree is the one of the whole payload.
C3_SkippedAtPrefix ==
    /\ Settled
    /\ codeBufferRef = JsonMap
    /\ typingPositionRef = typingSpeed
    /\ typingPositionRef < Len(codeBufferRef)
    /\ fileSystem = createDirectoryStructure(JsonEntries(JsonMap))

\* C4: parseCodeIntoFiles(codeBufferRef.current) runs at most once for each
\* buffer the typing simulation received.
C4_BufferParsedOnce == bufferParses <= 1

\* The main file of a new tree: the first candidate of the priority list that
\* exists in it, else its first file in pre-order, else none.
MainOf(structure) ==
    LET hits == {i \in 1..Len(mainFileCandidates) :
                    getFileContent(structure, mainFileCandidates[i]).found}
    IN IF hits # {}
       THEN mainFileCandidates[CHOOSE i \in hits : \A j \in hits : i <= j]
       ELSE findFirstFile(structure, << >>)

\* C5: when a payload is materialized at the end of the typing simulation,
\* the file selected and opened is the main file of the new tree.
C5_MainFileFromNewTree ==
    [][(~Settled /\ Settled' /\ ~ProjectFiles(codeBufferRef).throws
        /\ MainOf(fileSystem') # NoPath)
       => (selectedFile' = MainOf(fileSystem')
           /\ openFiles' = <<MainOf(fileSystem')>>)]_vars

\* C6: a request whose generation call failed in transport dispatches no
\* panel event, and its loading message is replaced by a message of status
\* error.
C6_FailureOnlyErrorMessage ==
    \A r \in 1..Len(requests) :
        requests[r].failed =>
            /\ \A e \in dispatched : e.request # r
            /\ \A i \in 1..Len(messages) : messages[i].status # "loading"
                                           \/ messages[i].id # requests[r].loadingId
            /\ \E i \in 1..Len(messages) : messages[i].status = "error"

\* ------------------------------------------------------------------------
\* Properties of generateWebApp (SpecProvider)
\* ------------------------------------------------------------------------
\* A classification answer that is no JSON: no text, no {...} in it, or a
\* {...} that JSON.parse rejects.
Unparsable(text) ==
    \/ text = << >>
    \/ JsonMatch(text) = << >>
    \/ ~JsonParses(JsonMatch(text))

\* C7: for an unparsable classification answer generateWebApp uses and
\* returns the default configuration.
C7_UnparsableGivesDefault ==
    /\ (call.stage # "start" /\ Unparsable(generateContent(call.configOutcome).text))
           => call.config = DefaultConfig
    /\ (call.stage = "returned" /\ Unparsable(generateContent(call.configOutcome).text))
           => call.response.config = DefaultConfig


\* ------------------------------------------------------------------------
\* Properties of a session with editing (SpecCode)
\* ------------------------------------------------------------------------
\* A node of any kind stands at path.
RECURSIVE NodeExists(_, _)
NodeExists(items, path) ==
    /\ path # << >>
    /\ \E i \in 1..Len(items) :
          /\ items[i].name = path[1]
          /\ \/ Len(path) = 1
             \/ /\ items[i].type = "folder"
                /\ NodeExists(items[i].children, Tail(path))

\* file is path or lies beneath it.
Beneath(file, path) ==
    /\ file # NoPath
    /\ Len(file) >= Len(path)
    /\ SubSeq(file, 1, Len(path)) = path

\* C2: whenever tabs are open, the selected file is one of them.
C2_SelectedFileIsOpen ==
    openFiles # << >> => InSeq(openFiles, selectedFile)

\* C8: a Ctrl+S save of an existing file replaces the content of that file
\* in the current tree and changes no other node of it.
C8_SaveChangesOnlyThatFile ==
    [][(SaveShortcut /\ getFileContent(fileSystem, selectedFile).found)
       => fileSystem' = updateFileContent(fileSystem, selectedFile,
                                          currentFileContent).items]_vars

\* C9: after deleteItem(path) of an existing node, no node stands at path and
\* no path equal to or beneath it is left in openFiles, in unsavedChanges or
\* as the selected file.
C9_DeleteRepairsOpenFiles ==
    [][\A item \in Rendered :
          (EditStep(deleteItem(Cur, item.path)) /\ NodeExists(fileSystem, item.path))
          => /\ ~NodeExists(fileSystem', item.path)
             /\ \A i \in 1..Len(openFiles') : ~Beneath(openFiles'[i], item.path)
             /\ \A file \in unsavedChanges' : ~Beneath(file, item.path)
             /\ ~Beneath(selectedFile', item.path)]_vars

\* C10: createNewFile at a path where a node of any kind stands fails: the
\* tree, the tabs and the selection stay as they are and an error is shown.
C10_CreateAtExistingNodeFails ==
    [][\A name \in NewItemNames :
          (EditStep(createNewFile(Cur, name))
           /\ NodeExists(fileSystem, currentPath \o name))
          => /\ UNCHANGED <<fileSystem, openFiles, selectedFile>>
             /\ toast' = "Error"]_vars

\* Names are unique among the children of items and of every folder below.
RECURSIVE UniqueNames(_)
UniqueNames(items) ==
    /\ \A i, j \in 1..Len(items) : items[i].name = items[j].name => i = j
    /\ \A i \in 1..Len(items) :
          items[i].type = "folder" => UniqueNames(items[i].children)

\* C11: in every reachable file tree no folder, and not the root, has two
\* children with the same name.
C11_SiblingNamesUnique == UniqueNames(fileSystem)

\* The code payload delivered by this step: the code of the request whose
\* generateApp call resolves in it (empty when the step delivers none).
ArrivingCode ==
    IF Len(resolved') = Len(resolved) + 1
    THEN requests'[resolved'[Len(resolved')]].response.code
    ELSE << >>

\* C12: when structure detection of an arriving code payload raises an error,
\* in the direct path or in the typing path, the error is reported by a
\* notice and the file tree, the tabs and the selection stay as they were.
C12_DetectionErrorReported ==
    [][(ArrivingCode # << >> /\ ProjectFiles(ArrivingCode).throws)
       => /\ toast' = "Error parsing code"
          /\ UNCHANGED <<fileSystem, openFiles, selectedFile>>]_vars

\* C14: while the user has the typing simulation paused, no tick advances the
\* revealed position or changes the file tree or the editor content.
C14_PausedTickChangesNothing ==
    [][(typingPaused /\ TypingTick)
       => UNCHANGED <<typingPositionRef, fileSystem, currentFileContent>>]_vars

\* C13: a manual edit accepted while the typing simulation is in progress is
\* preserved: the file the user created then stays in the tree (until the
\* user deletes it or a new payload arrives), whatever ticks and the final
\* re-parse do. (Were no manual edit accepted during the simulation,
\* manualEdit would never be set and the property would hold as well.)
C13_ManualEditPreserved ==
    manualEdit # NoPath => getFileContent(fileSystem, manualEdit).found

\* ------------------------------------------------------------------------
\* Timers and teardown
\* ------------------------------------------------------------------------
\* updateLoadingMessage, the callback of the 2 s status interval: it rotates
\* the status text of every message carrying the loading id.
updateLoadingMessage(msgs, index) ==
    [i \in 1..Len(msgs) |->
        IF msgs[i].id = loadingMessageRef
        THEN [msgs[i] EXCEPT !.statusText = loadingStages[index + 1]]
        ELSE msgs[i]]

StatusTick ==
    /\ mounted
    /\ loadingIntervalRef # 0
    /\ loadingMessageRef # 0
    /\ LET index == (loadingStageIndexRef + 1) % Len(loadingStages) IN
       /\ loadingStageIndexRef' = index
       /\ messages' = updateLoadingMessage(messages, index)
    /\ UNCHANGED <<aiVars, chatPanel, now, loadingMessageRef, loadingIntervalRef,
                   requests, resolved, dispatched, viewVars, flowVars, codeVars,
                   mounted, edits, manualEdit, call, outsideVars>>

\* The workspace is torn down: the effects' cleanups remove their listeners
\* (the handlers of listenForServerUrl belong to no effect), ChatPanel's
\* cleanup effect clears the status interval, and CodePanel has no cleanup
\* for the interval of startTypingEffect, which stays scheduled.
Unmount ==
    /\ mounted
    /\ mounted' = FALSE
    /\ loadingIntervalRef' = 0
    /\ listeners' = [h \in Handlers |->
                        IF h = "CodePanel/terminal-output" THEN listeners[h] ELSE 0]
    /\ UNCHANGED <<aiVars, chatPanel, now, messages, loadingMessageRef,
                   loadingStageIndexRef, requests, resolved, dispatched,
                   viewVars, flowVars, codeVars, edits, manualEdit, call,
                   sessions, sessionResult, fileMap, flatPanel,
                   extraction>>

\* The typing interval fires after the unmount: the state setters of the
\* unmounted component do nothing, the refs and the toast are still written.
OrphanTypingTick ==
    /\ ~mounted
    /\ typingIntervalRef = "active"
    /\ LET p == typingTick(Cur) IN
       /\ typingPositionRef' = p.typingPositionRef
       /\ typingIntervalRef' = p.typingIntervalRef
       /\ bufferParses' = p.bufferParses
       /\ toast' = p.toast
       /\ listeners' = listenForServerUrl(p)
    /\ UNCHANGED <<aiVars, chatVars, viewVars, flowVars, fileSystem, selectedFile,
                   openFiles, unsavedChanges, currentFileContent, currentPath,
                   isTyping, typingPaused, codeBufferRef, closure, editorMount,
                   mounted, edits, manualEdit, call, offPanelVars>>

NextTeardown ==
    \/ ConfigureClient
    \/ HandleFirstMessage
    \/ \E r \in 1..Len(requests) : ResolveCode(r)
    \/ \E r \in 1..Len(requests) : ImportDone(r)
    \/ \E r \in 1..Len(requests) : RenderDone(r)
    \/ StatusTick
    \/ TypingTick
    \/ SkipTyping
    \/ ToggleTypingPause
    \/ Unmount
    \/ OrphanTypingTick

SpecTeardown == InitCode /\ [][NextTeardown]_vars

\* C15: no tick of the status rotation or of the typing simulation changes
\* anything after the panels are unmounted, after typing has ended (settled
\* or skipped), or after every generation has completed or failed.
StatusTexts == [i \in 1..Len(messages) |-> messages[i].statusText]
C15_TicksTornDown ==
    [][/\ ~mounted =>
            UNCHANGED <<typingPositionRef, bufferParses, loadingStageIndexRef,
                        StatusTexts>>
       /\ (~isTyping /\ ~isTyping') => UNCHANGED <<typingPositionRef, fileSystem>>
       /\ (Len(resolved) = Len(requests) /\ Len(resolved') = Len(requests')) =>
            UNCHANGED <<loadingStageIndexRef, StatusTexts>>]_vars

\* ------------------------------------------------------------------------
\* A chat session: submissions, completions, chat-update events, the clock
\* ------------------------------------------------------------------------
\* The clock runs from Epoch to MaxNow.
MaxNow == 11
MaxChatUpdates == 2

\* Date.now() advances.
ClockTick ==
    /\ now < MaxNow
    /\ now' = now + 1
    /\ UNCHANGED <<aiVars, chatPanel, messages, loadingMessageRef,
                   loadingIntervalRef, loadingStageIndexRef, requests, resolved,
                   dispatched, viewVars, flowVars, codeVars, mounted, edits,
                   manualEdit, call, outsideVars>>

\* The detail of a chat-update event; id 0 stands for an absent id.
FromPromptPanel == <<"from the prompt panel">>
Detail(id, sender) == [id |-> id, sender |-> sender, content |-> FromPromptPanel]

\* The events that may arrive now: PromptPanel stamps the user event with
\* Date.now() and the ai event with Date.now() + 1, and an event dispatched
\* earlier may be delivered again.
ChatUpdates ==
    {Detail(id, "user") : id \in {0} \cup Epoch..now}
    \cup {Detail(id, "ai") : id \in (Epoch + 1)..(now + 1)}

\* The message handleChatUpdate builds from a detail.
newMessage(detail) ==
    Message(IF detail.id # 0 THEN detail.id ELSE now, detail.sender,
            IF chatPanel = 1 THEN "complete" ELSE "undefined", detail.content)

ChatUpdatesDelivered ==
    Cardinality({i \in 1..Len(messages) : messages[i].content = FromPromptPanel})

HandleChatUpdate(detail) ==
    /\ mounted
    /\ ChatUpdatesDelivered < MaxChatUpdates
    /\ messages' = Append(messages, newMessage(detail))
    /\ UNCHANGED <<aiVars, chatPanel, now, loadingMessageRef, loadingIntervalRef,
                   loadingStageIndexRef, requests, resolved, dispatched,
                   viewVars, flowVars, codeVars, mounted, edits, manualEdit,
                   call, outsideVars>>

\* A generation whose call fails or answers with prose only.
ProseOutcomes == {NetworkFailure, Completion(<<Part("text", Prose)>>)}

ResolveChat(r) ==
    generateAppResolves(r, {ValidConfig}, ProseOutcomes, {ValidDiagram})

NextChat ==
    \/ ConfigureClient
    \/ HandleSendMessage
    \/ \E r \in 1..Len(requests) : ResolveChat(r)
    \/ \E r \in 1..Len(requests) : ImportDone(r)
    \/ \E r \in 1..Len(requests) : RenderDone(r)
    \/ \E r \in 1..Len(requests) : FlowDiagramTimeout(r)
    \/ StatusTick
    \/ ClockTick
    \/ \E detail \in ChatUpdates : HandleChatUpdate(detail)

SpecChat == Init /\ [][NextChat]_vars

\* C16: delivering a chat-update event whose message is already in the list
\* leaves the list as it is after the first delivery.
C16_ChatUpdateIdempotent ==
    [][\A detail \in ChatUpdates :
          (/\ detail.id # 0
           /\ \E i \in 1..Len(messages) : messages[i] = newMessage(detail)
           /\ HandleChatUpdate(detail))
          => messages' = messages]_vars

\* C17: the message list is append-only except for the loading message. A
\* submission appends one user message and one loading message; the
\* completion or failure of a request removes its loading message and appends
\* exactly one ai message (complete or error); no step removes another message
\* or changes its id, sender or content; and no loading message is left once
\* every request has resolved.
Core(msg) == [id |-> msg.id, sender |-> msg.sender, content |-> msg.content]
Cores(msgs) == [i \in 1..Len(msgs) |-> Core(msgs[i])]
LoadingMessages(msgs) == {i \in 1..Len(msgs) : msgs[i].status = "loading"}
AppendOnlyButLoading ==
    LET n == Len(messages) IN
       /\ CASE Len(requests') > Len(requests) ->
                 /\ Len(messages') = n + 2
                 /\ SubSeq(Cores(messages'), 1, n) = Cores(messages)
                 /\ messages'[n + 1].sender = "user"
                 /\ messages'[n + 2].status = "loading"
            [] Len(resolved') > Len(resolved) ->
                 LET r == resolved'[Len(resolved')]
                     rest == Filter(messages,
                                    LAMBDA msg : ~(/\ msg.status = "loading"
                                                   /\ msg.id = requests[r].loadingId))
                 IN /\ Len(rest) = n - 1
                    /\ Len(messages') = n
                    /\ SubSeq(Cores(messages'), 1, n - 1) = Cores(rest)
                    /\ messages'[n].sender = "ai"
                    /\ messages'[n].status \in {"complete", "error"}
            [] OTHER ->
                 /\ Len(messages') >= n
                 /\ SubSeq(Cores(messages'), 1, n) = Cores(messages)
       /\ Len(resolved') = Len(requests') => LoadingMessages(messages') = {}

C17_AppendOnlyButLoading == [][AppendOnlyButLoading]_vars

\* C18: in every reachable state of a chat session the messages of the list
\* have pairwise distinct ids.
C18_MessageIdsDistinct ==
    \A i, j \in 1..Len(messages) : messages[i].id = messages[j].id => i = j

\* ------------------------------------------------------------------------
\* FlowPanel: renders in flight, Refresh, the code tab
\* ------------------------------------------------------------------------
FlowStep(f) ==
    /\ FlowRender(f)
    /\ UNCHANGED <<aiVars, chatVars, viewVars, codeVars, mounted, manualEdit,
                   call, outsideVars>>

\* The dynamic import of mermaid settles for the oldest renderMermaid in
\* flight: the render is started, or the outer catch shows the fallback.
FlowImportSettles ==
    /\ mounted
    /\ renderJobs # << >>
    /\ renderJobs[1].stage = "importing"
    /\ \E ok \in BOOLEAN :
        FlowStep(IF ok THEN renderStarted(FlowCur, 1)
                 ELSE renderSettled(FlowCur, 1,
                                    FallbackContent(renderJobs[1].code)))
    /\ UNCHANGED edits

\* mermaid.render settles for the oldest renderMermaid in flight: with the
\* svg, or with a rejection that the inner catch turns into the error block.
FlowRenderSettles ==
    /\ mounted
    /\ renderJobs # << >>
    /\ renderJobs[1].stage = "rendering"
    /\ LET job == renderJobs[1] IN
       FlowStep(renderSettled(FlowCur, 1,
                              IF MermaidAccepts(job.code)
                              THEN SvgOf(job.id, job.code)
                              ELSE ErrorHtml(job.code)))
    /\ UNCHANGED edits

\* The 500 ms timer of handleFlowDiagramUpdate: setIsLoading(false).
FlowLoadingTimeout ==
    /\ mounted
    /\ loadingTimeouts > 0
    /\ FlowStep([FlowCur EXCEPT !.isLoading = FALSE, !.loadingTimeouts = @ - 1])
    /\ UNCHANGED edits

\* handleRefresh; the button is disabled while isLoading.
HandleRefresh ==
    /\ mounted
    /\ ~isLoading
    /\ edits < MaxEdits
    /\ edits' = edits + 1
    /\ FlowStep(renderMermaid(FlowCur, mermaidCode))

\* What the user types into the textarea of the code tab.
FlowEdits ==
    {<< >>, <<WS>>, <<"A --> B">>, <<"flowchart TD", "A --> B">>}

\* onChange of the textarea: setMermaidCode(e.target.value).
EditMermaidCode ==
    /\ mounted
    /\ activeTab = "code"
    /\ edits < MaxEdits
    /\ edits' = edits + 1
    /\ \E code \in FlowEdits :
        /\ code # mermaidCode
        /\ FlowStep([FlowCur EXCEPT !.mermaidCode = code])

\* A tab trigger is pressed: the content of the other tab is unmounted and
\* the content of the chosen tab is mounted anew; FlowPanel does not render.
SwitchTab ==
    /\ mounted
    /\ activeTab' = IF activeTab = "diagram" THEN "code" ELSE "diagram"
    /\ mermaidRef' = IF DivPresent(mermaidCode, isLoading, activeTab')
                     THEN Div(NoMarkup) ELSE NoDiv
    /\ UNCHANGED <<mermaidCode, isLoading, renderedSvg, renderJobs,
                   loadingTimeouts, renderCount, rendererInputs, lastSource,
                   aiVars, chatVars, viewVars, codeVars, mounted, edits,
                   manualEdit, call, outsideVars>>

\* The diagram call answers with a diagram, with a block that opens with no
\* declaration, or fails (the fallback diagram is used).
BareDiagram == Completion(<<Part("mermaid", <<"A --> B">>)>>)
DiagramOutcomes == {ValidDiagram, BareDiagram, NetworkFailure}

ResolveFlow(r) ==
    generateAppResolves(r, {ValidConfig}, {Completion(<<Part("text", Prose)>>)},
                        DiagramOutcomes)

NextFlow ==
    \/ ConfigureClient
    \/ HandleSendMessage
    \/ \E r \in 1..Len(requests) : ResolveFlow(r)
    \/ \E r \in 1..Len(requests) : ImportDone(r)
    \/ \E r \in 1..Len(requests) : RenderDone(r)
    \/ \E r \in 1..Len(requests) : FlowDiagramTimeout(r)
    \/ FlowImportSettles
    \/ FlowRenderSettles
    \/ FlowLoadingTimeout
    \/ HandleRefresh
    \/ EditMermaidCode
    \/ SwitchTab

SpecFlow == Init /\ [][NextFlow]_vars

\* The same session with the diagram tab left open: diagram events, renders
\* and Refresh only.
NextDiagram ==
    \/ ConfigureClient
    \/ HandleSendMessage
    \/ \E r \in 1..Len(requests) : ResolveFlow(r)
    \/ \E r \in 1..Len(requests) : ImportDone(r)
    \/ \E r \in 1..Len(requests) : RenderDone(r)
    \/ \E r \in 1..Len(requests) : FlowDiagramTimeout(r)
    \/ FlowImportSettles
    \/ FlowRenderSettles
    \/ FlowLoadingTimeout
    \/ HandleRefresh

SpecDiagram == Init /\ [][NextDiagram]_vars

\* C19: once every request has run to its end and no render or loading timer
\* is in flight, the diagram tab shows the rendering of the diagram source
\* received last (its svg, or the fallback block when mermaid did not load).
FlowQuiescent ==
    /\ renderJobs = << >>
    /\ loadingTimeouts = 0
    /\ \A r \in 1..Len(requests) : requests[r].stage = "done"
C19_LastWriterWins ==
    (/\ FlowQuiescent
     /\ lastSource.received
     /\ MermaidAccepts(lastSource.code)
     /\ mermaidCode = lastSource.code
     /\ activeTab = "diagram")
    => /\ mermaidRef.present
       /\ mermaidRef.innerHTML.kind \in {"svg", "fallback"}
       /\ mermaidRef.innerHTML.source = lastSource.code

\* C20: no definition that is empty, whitespace-only or opens without a
\* declaration keyword is ever passed to mermaid.render.
OpensWithDeclaration(code) == ~Blank(code) /\ DeclarationOf(code[1]) # ""
C20_RendererInputsValid ==
    \A code \in rendererInputs : OpensWithDeclaration(code)

\* ------------------------------------------------------------------------
\* ProjectGenerator: the session map
\* ------------------------------------------------------------------------
MaxSessions == 2

\* The values uuidv4() draws from; it returns one not drawn before.
Uuids == {"u1", "u2", "u3"}

\* The configurations of type ProjectConfig: the sub-objects are optional.
SessionConfigs ==
    {[type |-> t, language |-> "typescript", frontend |-> f, backend |-> b,
      name |-> "shop"] :
        t \in {"frontend", "backend", "fullstack"},
        f \in {Absent, Frontend("react", "css")},
        b \in {Absent, Backend("express", "none")}}

Session(id, config) ==
    [id |-> id, config |-> config,
     terminalPath |-> <<"/private/tmp/term-users/", id, "/">>]

\* A validation that looks at the frontend sub-object only.
createSessionThrowsFrontendOnly(config) ==
    IF config.type \in {"frontend", "fullstack"} /\ ~config.frontend.present
    THEN "Frontend configuration is required for frontend or fullstack projects"
    ELSE ""

\* The validation of createSession (lines 29-44): the message it throws with,
\* "" when it goes on.
createSessionThrows(config) ==
    IF config.type \in {"frontend", "fullstack"} /\ ~config.frontend.present
    THEN "Frontend configuration is required for frontend or fullstack projects"
    ELSE IF config.type \in {"backend", "fullstack"} /\ ~config.backend.present
    THEN "Backend configuration is required for backend or fullstack projects"
    ELSE ""

\* Map.prototype.set: the entry of the key is replaced in place, a new key is
\* appended.
MapSet(map, key, value) ==
    IF \E i \in 1..Len(map) : map[i].id = key
    THEN [i \in 1..Len(map) |-> IF map[i].id = key THEN value ELSE map[i]]
    ELSE Append(map, value)

\* getSession(sessionId): the session, or undefined.
getSession(sessionId) ==
    LET i == FindIndex(sessions, LAMBDA e : e.id = sessionId) IN
    IF i = 0 THEN [found |-> FALSE, session |-> Session("", EmptyObject)]
    ELSE [found |-> TRUE, session |-> sessions[i]]

\* createSession(config)
createSession(config, sessionId) ==
    LET message == createSessionThrows(config) IN
    IF message # ""
    THEN /\ sessionResult' = [kind |-> "threw", id |-> "", message |-> message]
         /\ sessions' = sessions
    ELSE /\ sessions' = MapSet(sessions, sessionId, Session(sessionId, config))
         /\ sessionResult' = [kind |-> "returned", id |-> sessionId, message |-> ""]

createSessions(limit) ==
    /\ Len(sessions) < limit
    /\ \E config \in SessionConfigs,
          sessionId \in Uuids \ {sessions[i].id : i \in 1..Len(sessions)} :
        createSession(config, sessionId)
    /\ UNCHANGED <<aiVars, chatVars, viewVars, flowVars, codeVars, mounted,
                   edits, manualEdit, call, listeners, fileMap, flatPanel,
                   extraction>>

CreateSession == createSessions(MaxSessions)

\* A caller looks a session up: getSession reads the map and changes nothing.
GetSession ==
    /\ \E sessionId \in Uuids :
        sessionResult' =
            [kind |-> IF getSession(sessionId).found THEN "got" ELSE "undefined",
             id |-> sessionId, message |-> ""]
    /\ UNCHANGED <<aiVars, chatVars, viewVars, flowVars, codeVars, mounted,
                   edits, manualEdit, call, sessions, listeners, fileMap,
                   flatPanel, extraction>>

NextSessions == CreateSession \/ GetSession

SpecSessions == Mount(1) /\ [][NextSessions]_vars

\* One classification-and-generation call, and sessions created besides.
CreateFirstSession == createSessions(1)

NextConfig == Classify \/ Generate \/ Diagram \/ CreateFirstSession

SpecConfig == Mount(1) /\ [][NextConfig]_vars

\* C21: every configuration generateWebApp returns, and every configuration
\* createSession has accepted, has a frontend sub-object exactly when its type
\* is frontend or fullstack and a backend sub-object exactly when its type is
\* backend or fullstack.
WellFormed(config) ==
    /\ config.type \in {"frontend", "backend", "fullstack"}
    /\ config.frontend.present <=> config.type \in {"frontend", "fullstack"}
    /\ config.backend.present <=> config.type \in {"backend", "fullstack"}
C21_ConfigWellFormed ==
    /\ call.stage = "returned" => WellFormed(call.response.config)
    /\ \A i \in 1..Len(sessions) : WellFormed(sessions[i].config)


\* C30: createSession with a configuration that lacks a sub-object its type
\* requires throws and leaves the session map as it was; with any other
\* configuration it adds exactly one session, under an id no session had, and
\* getSession of that id returns it; and no step removes or replaces a session
\* that is in the map.
LacksRequired(config) ==
    \/ config.type \in {"frontend", "fullstack"} /\ ~config.frontend.present
    \/ config.type \in {"backend", "fullstack"} /\ ~config.backend.present
SessionIds == {sessions[i].id : i \in 1..Len(sessions)}
SessionsKept ==
    /\ Len(sessions') >= Len(sessions)
    /\ \A i \in 1..Len(sessions) : sessions'[i] = sessions[i]
CreateSessionContract ==
    \A config \in SessionConfigs, sessionId \in Uuids \ SessionIds :
        createSession(config, sessionId) =>
            IF LacksRequired(config)
            THEN /\ sessionResult'.kind = "threw"
                 /\ sessions' = sessions
            ELSE /\ sessionResult'.kind = "returned"
                 /\ sessionResult'.id = sessionId
                 /\ Len(sessions') = Len(sessions) + 1
                 /\ getSession(sessionId)' =
                        [found |-> TRUE, session |-> Session(sessionId, config)]
C30_SessionsOnlyAdded == [][SessionsKept /\ CreateSessionContract]_vars
C30_ThrowAfterSession ==
    /\ Len(sessions) = 1
    /\ sessionResult.kind = "threw"
    /\ getSession(sessions[1].id).found


\* C26: whatever the classification call answers, generateWebApp issues the
\* generation call exactly once and only after the classification call has
\* resolved, and the error of the response it returns is the same for every
\* outcome of the classification call: it depends on the generation and the
\* diagram call only.
CallOrder == <<"config", "webApp", "mermaid">>
GenerationCalls == {i \in 1..Len(call.calls) : call.calls[i] = "webApp"}
C26_ClassificationNeverBlocks ==
    /\ Len(call.calls) <= Len(CallOrder)
    /\ call.calls = SubSeq(CallOrder, 1, Len(call.calls))
    /\ call.stage \in {"generated", "returned"} =>
           /\ Cardinality(GenerationCalls) = 1
           /\ \A i \in GenerationCalls : i > 1 /\ call.calls[i - 1] = "config"
    /\ call.stage \in {"start", "classified"} => GenerationCalls = {}
    /\ call.stage = "returned" =>
           /\ \E mermaidOutcome \in MermaidOutcomes :
                  \A configOutcome \in ClassifierOutcomes :
                      generateWebApp(configOutcome, call.webAppOutcome,
                                     mermaidOutcome).error = call.response.error
           /\ call.webAppOutcome.kind = "ok" =>
                  call.response.error \in
                      {generateContent(o).error : o \in MermaidOutcomes}
C26_ReturnedAfterFailedClassification ==
    /\ call.stage = "returned"
    /\ call.configOutcome.kind # "ok"
    /\ call.calls = CallOrder
    /\ call.webAppOutcome.kind = "ok"
    /\ call.response.error = ""
    /\ call.response.code # << >>


\* ------------------------------------------------------------------------
\* createDirectoryStructure and getFileContent on file maps
\* ------------------------------------------------------------------------
MaxFiles == 3

\* The values a parsed file map holds: strings, and values that are none.
Str(text) == [type |-> "string", text |-> text]
Obj(text) == [type |-> "object", text |-> text]
MapValues == {Str(<<"x">>), Str(<<"y">>), Obj(<<"\"name\": \"app\"">>)}

\* path.split("/") of the keys "a/b.js", "a/c.js", "a/e/f.js", "d.js", "a", "".
MapPaths ==
    {<<"a", "b.js">>, <<"a", "c.js">>, <<"a", "e", "f.js">>, <<"d.js">>,
     <<"a">>, <<"">>}

\* The file maps of at most n entries: the keys of an object are distinct.
RECURSIVE FileMaps(_)
FileMaps(n) ==
    IF n = 0 THEN {<< >>}
    ELSE FileMaps(n - 1)
         \cup {Append(m, Entry(p, v)) :
                  m \in {x \in FileMaps(n - 1) : Len(x) = n - 1},
                  p \in MapPaths, v \in MapValues}

DistinctKeys(files) ==
    \A i, j \in 1..Len(files) : files[i].path = files[j].path => i = j

\* JSON.stringify(content, null, 2) of an object: braces, and the members
\* indented on lines of their own.
stringify(content) == <<"{", "\n", "  ">> \o content.text \o <<"\n", "}">>

\* Lines 400-403: the content a file node is given.
FileContent(content) ==
    IF content.type = "string" THEN content.text ELSE stringify(content)

\* createDirectoryStructure(files) of a parsed file map.
materialize(files) ==
    createDirectoryStructure(
        [i \in 1..Len(files) |->
            Entry(files[i].path, FileContent(files[i].content))])

\* The file map of the first payload is materialized.
Materialize ==
    /\ fileMap.files = << >>
    /\ \E files \in {m \in FileMaps(MaxFiles) : DistinctKeys(m)} :
        fileMap' = [files |-> files, structure |-> materialize(files)]
    /\ UNCHANGED <<aiVars, chatVars, viewVars, flowVars, codeVars, mounted,
                   edits, manualEdit, call, sessions, sessionResult, listeners,
                   flatPanel, extraction>>

NextTree == Materialize

SpecTree == Mount(1) /\ [][NextTree]_vars

\* The paths of the file nodes and of the folder nodes of a tree.
RECURSIVE FilesOf(_, _)
FilesOf(items, prefix) ==
    IF items = << >> THEN << >>
    ELSE LET item == Head(items)
             path == Append(prefix, item.name)
         IN (IF item.type = "file" THEN <<path>>
             ELSE FilesOf(item.children, path))
            \o FilesOf(Tail(items), prefix)

RECURSIVE FoldersOf(_, _)
FoldersOf(items, prefix) ==
    IF items = << >> THEN << >>
    ELSE LET item == Head(items)
             path == Append(prefix, item.name)
         IN (IF item.type = "folder"
             THEN <<path>> \o FoldersOf(item.children, path)
             ELSE << >>)
            \o FoldersOf(Tail(items), prefix)

Occurrences(s, x) == Cardinality({i \in 1..Len(s) : s[i] = x})

IsFolderPrefix(p, q) == Len(p) < Len(q) /\ SubSeq(q, 1, Len(p)) = p

\* The maps the round trip is stated for: distinct paths, none of them a
\* folder prefix of another.
RoundTripMap(files) ==
    /\ DistinctKeys(files)
    /\ \A i, j \in 1..Len(files) : ~IsFolderPrefix(files[i].path, files[j].path)

\* Every folder of a path is in the tree once, and the files of the tree are
\* those of the map.
TreeOfMap(files, structure) ==
    /\ \A i \in 1..Len(files) : \A k \in 1..(Len(files[i].path) - 1) :
           Occurrences(FoldersOf(structure, << >>),
                       SubSeq(files[i].path, 1, k)) = 1
    /\ Len(FilesOf(structure, << >>)) = Len(files)
    /\ \A i \in 1..Len(files) :
           Occurrences(FilesOf(structure, << >>), files[i].path) = 1

\* getFileContent(path) returns the value the map holds for the path.
ReadsMapped(entry, structure) ==
    LET read == getFileContent(structure, entry.path) IN
    read.found /\ Str(read.content) = entry.content

\* C22 as stated: for a map of distinct paths, none a folder prefix of
\* another, the tree holds each shared folder once and no file besides those
\* of the map, and getFileContent of every path is the mapped content.
C22_RoundTripAnyMap ==
    RoundTripMap(fileMap.files) =>
        /\ TreeOfMap(fileMap.files, fileMap.structure)
        /\ \A i \in 1..Len(fileMap.files) :
               ReadsMapped(fileMap.files[i], fileMap.structure)

\* C22: for such a map the tree holds each shared folder once and no file
\* besides those of the map; getFileContent of a path other than "" is the
\* mapped content when that is a string, and otherwise its JSON text.
C22_RoundTrip ==
    RoundTripMap(fileMap.files) =>
        /\ TreeOfMap(fileMap.files, fileMap.structure)
        /\ \A i \in 1..Len(fileMap.files) :
               LET entry == fileMap.files[i]
                   read == getFileContent(fileMap.structure, entry.path)
               IN /\ entry.path # <<"">> =>
                         /\ read.found
                         /\ read.content = FileContent(entry.content)
                         /\ entry.content.type = "string" =>
                                ReadsMapped(entry, fileMap.structure)
                  /\ entry.path = <<"">> => ~read.found
C22_SharedFolder ==
    /\ fileMap.files = <<Entry(<<"a", "b.js">>, Str(<<"x">>)),
                         Entry(<<"a", "c.js">>, Str(<<"y">>))>>
    /\ fileMap.structure =
           <<FolderNode("a", <<FileNode("b.js", <<"x">>),
                               FileNode("c.js", <<"y">>)>>)>>
    /\ getFileContent(fileMap.structure, <<"a", "b.js">>) = Found(<<"x">>)


\* ------------------------------------------------------------------------
\* The CodePanel definition with a flat file map: its tabs
\* ------------------------------------------------------------------------
\* {...prev, [key]: value}: a key the object has keeps its place.
FlatPut(files, key, value) ==
    IF \E i \in 1..Len(files) : files[i].path = key
    THEN [i \in 1..Len(files) |->
             IF files[i].path = key THEN Entry(key, value) ELSE files[i]]
    ELSE Append(files, Entry(key, value))

FlatKeys(files) == [i \in 1..Len(files) |-> files[i].path]

\* parseCodeIntoFiles(code) of the flat definition (lines 103-126).
flatParseCodeIntoFiles(p, code) ==
    [selectedFile |-> <<"index.html">>,
     openFiles |-> << <<"index.html">> >>,
     parsedFiles |->
         <<Entry(<<"index.html">>, code)>>
         \o (IF Includes(code, StyleBlock)
             THEN <<Entry(<<"styles.css">>, <<"css">>)>> ELSE << >>)
         \o (IF Includes(code, ScriptBlock)
             THEN <<Entry(<<"script.js">>, <<"js">>)>> ELSE << >>),
     unsavedChanges |-> {}]

\* openFile(filename) (lines 268-273)
flatOpenFile(p, filename) ==
    [p EXCEPT !.selectedFile = filename,
              !.openFiles = IF InSeq(@, filename) THEN @ ELSE Append(@, filename)]

\* closeFileTab(filename, e) of the flat definition (lines 276-303)
flatCloseFileTab(p, filename) ==
    LET newOpenFiles == Filter(p.openFiles, LAMBDA file : file # filename)
        closed == [p EXCEPT !.unsavedChanges = @ \ {filename},
                            !.openFiles = newOpenFiles]
    IN IF p.selectedFile = filename /\ newOpenFiles # << >>
       THEN [closed EXCEPT !.selectedFile = newOpenFiles[1]]
       ELSE IF newOpenFiles = << >> /\ p.parsedFiles # << >>
       THEN LET firstFile == FlatKeys(p.parsedFiles)[1] IN
            [closed EXCEPT !.openFiles = <<firstFile>>,
                           !.selectedFile = firstFile]
       ELSE closed

\* handleEditorChange(value) (lines 221-228)
flatHandleEditorChange(p, value) ==
    [p EXCEPT !.parsedFiles = FlatPut(@, p.selectedFile, value),
              !.unsavedChanges = @ \cup {p.selectedFile}]

FlatStep(p) ==
    /\ flatPanel' = p
    /\ UNCHANGED <<aiVars, chatVars, viewVars, flowVars, codeVars, mounted,
                   edits, manualEdit, call, sessions, sessionResult, listeners,
                   fileMap, extraction>>

FlatAppPreviewUpdate ==
    \E code \in Payloads : FlatStep(flatParseCodeIntoFiles(flatPanel, code))

FlatOpenFile ==
    \E i \in 1..Len(flatPanel.parsedFiles) :
        FlatStep(flatOpenFile(flatPanel, flatPanel.parsedFiles[i].path))

\* A click on a tab: setSelectedFile(file) (line 414).
FlatSelectTab ==
    \E i \in 1..Len(flatPanel.openFiles) :
        FlatStep([flatPanel EXCEPT !.selectedFile = flatPanel.openFiles[i]])

FlatCloseFileTab ==
    \E i \in 1..Len(flatPanel.openFiles) :
        FlatStep(flatCloseFileTab(flatPanel, flatPanel.openFiles[i]))

FlatEditorChange ==
    FlatStep(flatHandleEditorChange(flatPanel, <<"edited">>))

NextTabs ==
    \/ FlatAppPreviewUpdate
    \/ FlatOpenFile
    \/ FlatSelectTab
    \/ FlatCloseFileTab
    \/ FlatEditorChange

SpecTabs == Mount(1) /\ [][NextTabs]_vars

\* What closing the tab of filename is to do to the tabs open and the file
\* selected.
TabClosed(open, selected, filename, openAfter, selectedAfter) ==
    LET rest == Filter(open, LAMBDA file : file # filename) IN
    /\ (selected = filename /\ rest # << >>) => selectedAfter = rest[1]
    /\ rest = << >> => selectedAfter = NoPath /\ openAfter = << >>
    /\ (selected # filename /\ rest # << >>) => selectedAfter = selected

\* The tree-keeping CodePanel definition closes tabs that way.
TreePanelTabClosed ==
    [][\A i \in 1..Len(openFiles) :
          CodeStep(closeFileTab(Cur, openFiles[i])) =>
              TabClosed(openFiles, selectedFile, openFiles[i],
                        openFiles', selectedFile')]_vars

TerminalOutput ==
    /\ listeners["CodePanel/terminal-output"] > 0
    /\ listeners' = [listeners EXCEPT !["CodePanel/terminal-output"] = 0]
    /\ toast' = "Development server running"
    /\ UNCHANGED <<aiVars, chatVars, viewVars, flowVars, fileSystem, selectedFile,
                   openFiles, unsavedChanges, currentFileContent, currentPath,
                   isTyping, typingPaused, typingIntervalRef, codeBufferRef,
                   typingPositionRef, closure, editorMount, bufferParses,
                   mounted, edits, manualEdit, call, offPanelVars>>

NextListeners == NextTeardown \/ TerminalOutput

SpecListeners == InitCode /\ [][NextListeners]_vars

\* C24: a mounted panel has at most one handler on the document for each of
\* its events (chat-update, app-preview-update, mermaid-code-update,
\* flow-diagram-update, terminal-output), and an unmounted panel has none.
C24_OneHandlerEach ==
    \A h \in Handlers :
        /\ listeners[h] <= 1
        /\ ~mounted => listeners[h] = 0
\* The handlers the effects register are one each while the panels are
\* mounted and none after.
EffectHandlersOneEach ==
    \A h \in Handlers \ {"CodePanel/terminal-output"} :
        listeners[h] = IF mounted THEN 1 ELSE 0


\* ------------------------------------------------------------------------
\* extractTextOnly and extractCodeBlocks on the raw text of a completion
\* ------------------------------------------------------------------------
\* The raw text is a sequence of units: the fence (three backticks), a
\* newline, a blank, or a run of characters that are neither whitespace nor
\* backticks.
MaxParts == 3
Fence == "<fence>"
NL == "\n"
IsSpace(unit) == unit \in {NL, WS}

Labels == {"tsx", "css", "mermaid", ""}
Bodies == {<<"a">>, <<WS, "a">>, <<"a", NL, WS, "b">>}
ProseText == <<"Here", WS, "it", WS, "is.">>

PartsOf == {Part("text", ProseText)}
           \cup {Part(label, body) : label \in Labels \ {""}, body \in Bodies}
           \cup {Part("none", body) : body \in Bodies}

\* The fenced blocks of a completion have distinct labels.
DistinctLabels(parts) ==
    \A i, j \in 1..Len(parts) :
        (parts[i].label # "text" /\ parts[i].label = parts[j].label) => i = j

\* The completions of at most n parts.
RECURSIVE Completions(_)
Completions(n) ==
    IF n = 0 THEN {<< >>}
    ELSE Completions(n - 1)
         \cup {c \in {Append(parts, part) :
                         parts \in {x \in Completions(n - 1) : Len(x) = n - 1},
                         part \in PartsOf} : DistinctLabels(c)}

\* The text of a part: prose as it is, a block between its fences.
RawPart(part) ==
    IF part.label = "text" THEN part.body
    ELSE <<Fence>> \o (IF part.label = "none" THEN << >> ELSE <<part.label>>)
         \o <<NL>> \o part.body \o <<NL, Fence>>

\* The parts, a blank line between them.
RECURSIVE Raw(_)
Raw(parts) ==
    IF parts = << >> THEN << >>
    ELSE IF Len(parts) = 1 THEN RawPart(parts[1])
    ELSE RawPart(parts[1]) \o <<NL, NL>> \o Raw(Tail(parts))

\* s.trim()
TrimSpace(s) ==
    LET solid == {i \in 1..Len(s) : ~IsSpace(s[i])} IN
    IF solid = {} THEN << >>
    ELSE SubSeq(s, CHOOSE i \in solid : \A j \in solid : i <= j,
                   CHOOSE i \in solid : \A j \in solid : i >= j)

\* The first fence at or after position k, 0 if there is none.
NextFence(text, k) ==
    LET S == {i \in k..Len(text) : text[i] = Fence} IN
    IF S = {} THEN 0 ELSE CHOOSE i \in S : \A j \in S : i <= j

\* How many units after position i [^\s]* takes, and \s* after it.
SolidRun(text, i) ==
    LET S == {k \in i..Len(text) : \A m \in (i + 1)..k : ~IsSpace(text[m])} IN
    (CHOOSE k \in S : \A j \in S : k >= j) - i
SpaceRun(text, i) ==
    LET S == {k \in i..Len(text) : \A m \in (i + 1)..k : IsSpace(text[m])} IN
    (CHOOSE k \in S : \A j \in S : k >= j) - i

FollowedBy(text, i, label) == i < Len(text) /\ text[i + 1] = label

\* Where a match that opens at the fence of position i closes, 0 if it does
\* not match, for the three patterns:
\*   "mermaid"  ```mermaid[\s\S]*?```
\*   "code"     ```(?!mermaid)([^\s]*)?[\s\S]*?```
\*   "any"      ```(?:mermaid|html|js|jsx|tsx|ts|css|[^\s]*)?[\s\S]*?```
\* The greedy [^\s]* gives units back when no fence follows what it took.
ClosingFence(text, i, pattern) ==
    LET greedy == NextFence(text, i + 1 + SolidRun(text, i))
        fences == {k \in (i + 1)..Len(text) : text[k] = Fence}
        backtracked == IF fences = {} THEN 0
                       ELSE CHOOSE k \in fences : \A j \in fences : k >= j
        listed == \E label \in {"mermaid", "html", "js", "jsx", "tsx", "ts", "css"} :
                      FollowedBy(text, i, label)
    IN IF text[i] # Fence THEN 0
       ELSE CASE pattern = "mermaid" ->
                     IF FollowedBy(text, i, "mermaid")
                     THEN NextFence(text, i + 2) ELSE 0
              [] pattern = "code" ->
                     IF FollowedBy(text, i, "mermaid") THEN 0
                     ELSE IF greedy # 0 THEN greedy ELSE backtracked
              [] OTHER ->
                     IF listed THEN NextFence(text, i + 2)
                     ELSE IF greedy # 0 THEN greedy ELSE backtracked

\* The matches of a pattern with the g flag, from position i on.
RECURSIVE Matches(_, _, _)
Matches(text, i, pattern) ==
    IF i > Len(text) THEN << >>
    ELSE LET close == ClosingFence(text, i, pattern) IN
         IF close = 0 THEN Matches(text, i + 1, pattern)
         ELSE <<[from |-> i, to |-> close]>> \o Matches(text, close + 1, pattern)

\* The units of text at the positions in kept.
RECURSIVE Kept(_, _, _)
Kept(text, i, kept) ==
    IF i > Len(text) THEN << >>
    ELSE (IF i \in kept THEN <<text[i]>> ELSE << >>) \o Kept(text, i + 1, kept)

\* text.replace(pattern, "")
Without(text, pattern) ==
    LET matches == Matches(text, 1, pattern) IN
    Kept(text, 1, {i \in 1..Len(text) :
                      \A m \in 1..Len(matches) :
                          i < matches[m].from \/ i > matches[m].to})

\* fullText.split("\n\n")[0]
FirstParagraph(text) ==
    LET breaks == {i \in 1..(Len(text) - 1) : text[i] = NL /\ text[i + 1] = NL} IN
    IF breaks = {} THEN text
    ELSE SubSeq(text, 1, (CHOOSE i \in breaks : \A j \in breaks : i <= j) - 1)

\* extractTextOnly(fullText) (lines 34-52)
extractTextOnlyRaw(fullText) ==
    LET cleanedText == TrimSpace(Without(fullText, "any"))
        firstParagraph == TrimSpace(FirstParagraph(fullText))
    IN IF /\ cleanedText = << >>
          /\ fullText # << >>
          /\ firstParagraph # << >>
          /\ ~InSeq(firstParagraph, Fence)
       THEN firstParagraph
       ELSE cleanedText

\* The last newline of the whitespace that follows the fence at position p
\* and what is not whitespace after it, 0 if there is none.
LastNewline(block, p) ==
    LET from == p + SolidRun(block, p)
        S == {k \in (from + 1)..(from + SpaceRun(block, from)) : block[k] = NL}
    IN IF S = {} THEN 0 ELSE CHOOSE k \in S : \A j \in S : k >= j

\* match[0].replace(/```[^\s]*?\s*\n/, ""): the first fence that such a
\* newline follows is removed, up to that newline.
StripOpening(block) ==
    LET starts == {p \in 1..Len(block) :
                      block[p] = Fence /\ LastNewline(block, p) # 0}
    IN IF starts = {} THEN block
       ELSE LET p == CHOOSE q \in starts : \A j \in starts : q <= j IN
            SubSeq(block, 1, p - 1)
            \o SubSeq(block, LastNewline(block, p) + 1, Len(block))

\* .replace(/\s*```$/, ""): the fence that ends the text goes, with the
\* whitespace before it.
StripClosing(block) ==
    IF block = << >> \/ block[Len(block)] # Fence THEN block
    ELSE LET S == {k \in 0..(Len(block) - 1) :
                      \A m \in (k + 1)..(Len(block) - 1) : IsSpace(block[m])}
         IN SubSeq(block, 1, CHOOSE k \in S : \A j \in S : k <= j)

\* extractedCode after the loop over the matches (lines 62-67).
RECURSIVE CodeOf(_, _)
CodeOf(tempText, matches) ==
    IF matches = << >> THEN << >>
    ELSE StripClosing(StripOpening(
             SubSeq(tempText, Head(matches).from, Head(matches).to)))
         \o <<NL, NL>> \o CodeOf(tempText, Tail(matches))

\* extractCodeBlocks(fullText) (lines 55-70)
extractCodeBlocksRaw(fullText) ==
    LET tempText == Without(fullText, "mermaid") IN
    TrimSpace(CodeOf(tempText, Matches(tempText, 1, "code")))

\* generateContent extracts the text and the code of a completion.
Extract ==
    /\ extraction = NotExtracted
    /\ \E parts \in Completions(MaxParts) \ {<< >>} :
        extraction' = [parts |-> parts,
                       fullText |-> Raw(parts),
                       text |-> extractTextOnlyRaw(Raw(parts)),
                       code |-> extractCodeBlocksRaw(Raw(parts))]
    /\ UNCHANGED <<aiVars, chatVars, viewVars, flowVars, codeVars, mounted,
                   edits, manualEdit, call, sessions, sessionResult, listeners,
                   fileMap, flatPanel>>

NextExtract == Extract

SpecExtract == Mount(1) /\ [][NextExtract]_vars

\* The blocks of a completion that are no diagram, in their order.
CodeParts(parts) ==
    Filter(parts, LAMBDA part : part.label \notin {"text", "mermaid"})

\* What is between the fences of the blocks, a blank line between two.
RECURSIVE Joined(_)
Joined(parts) ==
    IF parts = << >> THEN << >>
    ELSE IF Len(parts) = 1 THEN parts[1].body
    ELSE parts[1].body \o <<NL, NL>> \o Joined(Tail(parts))

\* The fence, the labels and what the bodies are written with.
FencedUnits == {Fence, "a", "b"} \cup (Labels \ {""})

\* The code is what the blocks that are no diagram hold, nothing when there
\* is no such block, and the text has nothing of the blocks in it.
Extracted(code) ==
    /\ extraction.code = code
    /\ CodeParts(extraction.parts) = << >> <=> extraction.code = << >>
    /\ \A i \in 1..Len(extraction.text) : extraction.text[i] \notin FencedUnits

\* C25: for a completion of prose and closed fenced blocks with distinct
\* labels, extractCodeBlocks returns exactly what is between the fences of the
\* blocks that are no diagram, in their order (nothing when there is no such
\* block), and extractTextOnly returns a text with nothing of the blocks in it.
C25_ExtractionExact ==
    extraction # NotExtracted =>
        Extracted(Joined(CodeParts(extraction.parts)))

\* What extractCodeBlocks returns is that content without the whitespace it
\* begins and ends with.
ExtractionTrimmed ==
    extraction # NotExtracted =>
        Extracted(TrimSpace(Joined(CodeParts(extraction.parts))))


\* C28: isGenerating is true exactly while a generateApp call is in flight:
\* with overlapping calls it stays true until the last of them has resolved,
\* it is false when none is outstanding, and it is never set while no client
\* is configured.
InFlight == {r \in 1..Len(requests) : requests[r].stage = "pending"}
C28_GeneratingWhileInFlight ==
    /\ isGenerating <=> InFlight # {}
    /\ ~isConfigured => ~isGenerating


\* C29: isTyping, set because a generation started, is cleared once the
\* request has resolved. Only the typing interval and skipTyping clear it, and
\* skipTyping does nothing while typingIntervalRef is null; so when no request
\* is in flight and no interval was ever started, isTyping is to be false.
C29_TypingCleared ==
    (InFlight = {} /\ typingIntervalRef = "null") => ~isTyping

\* No step clears isTyping while typingIntervalRef is null.
TypingStaysWithoutInterval ==
    [][(isTyping /\ typingIntervalRef = "null") => isTyping']_vars


\* C27: the selected file, when there is one, and every open tab name a file
\* that the current tree holds; also after a new generation has replaced the
\* tree, after deleteItem and after Ctrl+S.
C27_TabsNameFiles ==
    /\ selectedFile # NoPath => getFileContent(fileSystem, selectedFile).found
    /\ \A i \in 1..Len(openFiles) : getFileContent(fileSystem, openFiles[i]).found

\* The same of the states in which no code is being typed.
SettledTabsNameFiles ==
    (~isTyping /\ typingIntervalRef # "active") => C27_TabsNameFiles

====
